---- MODULE Spec2Model ----
(***************************************************************************)
(* firegorm: the hook registry (hooks.go) and the mutations of BaseModel   *)
(* (Create / Update / Delete) that run hooks around the document store.    *)
(*                                                                         *)
(* Every goroutine is a thread with a call stack of frames.  A frame is    *)
(* one activation of a Go function; its pc names the next statement.  A    *)
(* hook function is a value whose Kind says what its body does.            *)
(***************************************************************************)
EXTENDS Integers, Sequences, FiniteSets, TLC

\* ------------------------------------------------------------------ bounds
MaxHooks == 2     \* hook functions registered in the whole registry
MaxCalls == 3     \* top-level calls the thread t1 makes
MaxWriterCalls == 1     \* top-level calls the thread t2 makes
MaxKeys == 2            \* keys of an update map handed to validateUpdateFields
MaxFilters == 2         \* entries of a filter map
MaxLimit == 2           \* the largest limit handed to List
MaxPages == 6           \* List calls of one pagination

\* ------------------------------------------------------- hooks.go: HookType
PreCreate == "pre_create"
PostCreate == "post_create"
PreUpdate == "pre_update"
PostUpdate == "post_update"
PreDelete == "pre_delete"
PostDelete == "post_delete"
HookType == {PreCreate, PostCreate, PreUpdate, PostUpdate, PreDelete, PostDelete}

Collections == {"tasks", "users"}
Threads == {"t1", "t2"}
NoThread == "none"

\* ------------------------------------------------------------- Go values
\* error values; Nil is Go's nil error
Err(kind, a, b, c) == [kind |-> kind, a |-> a, b |-> b, c |-> c]
Nil == Err("nil", "", "", "")

\* Go maps: a function whose DOMAIN is the set of keys present
EmptyMap == [x \in {} |-> TRUE]
MapSet(m, k, v) == [x \in (DOMAIN m) \cup {k} |-> IF x = k THEN v ELSE m[x]]

\* ------------------------------------------------------ hook functions
\* What the body of a hook function does (HookFunc is any func(ctx, data) error).
\*   ok      returns nil
\*   fail    returns an error
\*   all     calls DefaultRegistry.EnableAll(false), returns nil
\*   type    calls DefaultRegistry.EnableType(ht, false), returns nil
\*   scope   calls DefaultRegistry.EnableScope(collection, ht, false), returns nil
\*   reg     calls DefaultRegistry.RegisterHook(collection, ht, h1), returns nil
\*   run     runs a nested DefaultRegistry.RunHooks and returns its result
\*   either  returns nil or an error, depending on the payload
\*   edit    changes the payload it was handed (the update map), returns nil
Kind(fn) ==
    CASE fn \in {"h1", "h2"} -> "ok"
      [] fn = "bad" -> "fail"
      [] fn = "hx" -> "either"
      [] fn = "hAll" -> "all"
      [] fn = "hType" -> "type"
      [] fn = "hScope" -> "scope"
      [] fn = "hReg" -> "reg"
      [] fn = "hRun" -> "run"
      [] fn \in {"hDrop", "hGhost", "hStamp"} -> "edit"

PlainFns == {"h1", "h2", "bad"}
SetterFns == {"hAll", "hType", "hScope", "hReg"}
ReentrantFns == SetterFns \cup {"hRun"}
EditFns == {"hDrop", "hGhost", "hStamp"}

\* the scope a "run" hook re-enters
NestedColl == "tasks"
NestedType == PostUpdate

VARIABLES
    hooks,          \* HookRegistry.hooks: collection -> hookType -> []HookFunc
    enabledAll,     \* HookRegistry.enabledAll
    enabledTypes,   \* HookRegistry.enabledTypes: map[HookType]bool
    enabledScopes,  \* HookRegistry.enabledScopes: map[string]map[HookType]bool
    rheld,          \* HookRegistry.mu: read locks each thread holds
    wmutex,         \* HookRegistry.mu: the writer that called Lock, or NoThread
    stack,          \* each thread's call stack, innermost frame last
    calls,          \* top-level calls each thread has made
    trace,          \* what the thread's current top-level call did, in order
    last,           \* each thread's last finished top-level call
    modelRegistry,  \* registry.go modelRegistry: "collection.Model" -> ModelInfo
    bm,             \* the BaseModel instances the mutations are called on
    store,          \* the document store: <<collection, id>> -> document
    writes,         \* every Set / Update the document store received, in order
    nextID,         \* identifiers generateUUID has handed out
    clock           \* readings of time.Now() taken

regvars == <<hooks, enabledAll, enabledTypes, enabledScopes>>
lockvars == <<rheld, wmutex>>
ormvars == <<modelRegistry, bm, store, writes, nextID, clock>>
vars == <<hooks, enabledAll, enabledTypes, enabledScopes, rheld, wmutex,
          stack, calls, trace, last, modelRegistry, bm, store, writes, nextID, clock>>

\* ------------------------------------------------------- model.go BaseModel
Instances == {"task", "blank", "stray"}
BaseModel0 ==
    [ID |-> "", CreatedAt |-> "", UpdatedAt |-> "", DeletedAt |-> "",
     CollectionName |-> "", ModelName |-> ""]

\* ------------------------------------------------------------- frames
NoSnap == [g |-> FALSE, e |-> "unset", s |-> "unset", regs |-> <<>>]

\* the record a Create call is given
NoData ==
    [kind |-> "", Title |-> "", Description |-> "", ID |-> "", CreatedAt |-> "",
     UpdatedAt |-> "", Deleted |-> "", DeletedAt |-> ""]

\* a filter value: a string (its characters in s), a list, a number, nil,
\* or a time.Time (year, month, day)
NilValue == [kind |-> "nil", s |-> <<>>, y |-> 0, m |-> 0, d |-> 0]

\* what parseFilter returns: (field, op, newValue, err); errKey is the key
\* the error message names
NoOut == [field |-> <<>>, op |-> "", newValue |-> NilValue, err |-> Nil, errKey |-> <<>>]

Frame0 ==
    [op |-> "", pc |-> "", coll |-> "", ht |-> "", fn |-> "", on |-> FALSE,
     fns |-> <<>>, i |-> 0, err |-> Nil, ret |-> Nil,
     snap |-> NoSnap, inv |-> <<>>,
     recv |-> "", data |-> NoData, id |-> "", updates |-> EmptyMap,
     key |-> <<>>, val |-> NilValue, out |-> NoOut,
     filters |-> <<>>, query |-> <<>>,
     limit |-> 0, startAfter |-> "", sortField |-> "", sortOrder |-> "",
     qOrder |-> "", qAfter |-> "", qLimit |-> 0,
     pending |-> <<>>, had |-> <<>>, items |-> <<>>, token |-> "",
     property |-> <<>>, count |-> 0, page |-> 0, all |-> <<>>,
     model |-> "", modelName |-> "", info |-> <<>>]

Top(t) == stack[t][Len(stack[t])]
Idle(t) == stack[t] = <<>>
Running(t, op, pc) == ~Idle(t) /\ Top(t).op = op /\ Top(t).pc = pc

SetTop(t, f) == [stack EXCEPT ![t] = [@ EXCEPT ![Len(@)] = f]]
\* the top frame becomes f and calls g
Push(t, f, g) == [stack EXCEPT ![t] = Append([@ EXCEPT ![Len(@)] = f], g)]
\* the top frame returns err to its caller
Pop(t, err) ==
    LET n == Len(stack[t]) IN
    IF n = 1 THEN [stack EXCEPT ![t] = <<>>]
    ELSE [stack EXCEPT ![t] =
            [k \in 1..(n - 1) |->
                IF k = n - 1 THEN [@[k] EXCEPT !.ret = err] ELSE @[k]]]

NoLast == [op |-> "", coll |-> "", ht |-> "", err |-> Nil, snap |-> NoSnap, inv |-> <<>>]

\* the frame f returns err: to its caller, or (top level) into last
ReturnVars(t, f, err) ==
    /\ stack' = Pop(t, err)
    /\ last' = IF Len(stack[t]) = 1
               THEN [last EXCEPT ![t] = [op |-> f.op, coll |-> f.coll, ht |-> f.ht,
                                         err |-> err, snap |-> f.snap, inv |-> f.inv]]
               ELSE last

\* the settings of the three switches and the hooks of one scope, as a call
\* finds them (kept in the frame for the properties below)
TypeSetting(ht) ==
    IF ht \notin DOMAIN enabledTypes THEN "unset"
    ELSE IF enabledTypes[ht] THEN "on" ELSE "off"
ScopeSetting(c, ht) ==
    IF c \notin DOMAIN enabledScopes THEN "unset"
    ELSE IF ht \notin DOMAIN enabledScopes[c] THEN "unset"
    ELSE IF enabledScopes[c][ht] THEN "on" ELSE "off"
SnapOf(c, ht) ==
    [g |-> enabledAll, e |-> TypeSetting(ht), s |-> ScopeSetting(c, ht),
     regs |-> IF c \in Collections /\ ht \in HookType THEN hooks[c][ht] ELSE <<>>]

NumHooks ==
    LET RECURSIVE Sum(_)
        Sum(S) == IF S = {} THEN 0
                  ELSE LET x == CHOOSE y \in S : TRUE
                       IN Len(hooks[x[1]][x[2]]) + Sum(S \ {x})
    IN Sum(Collections \X HookType)

\* ------------------------------------------------ sync.RWMutex (r.mu)
\* Lock() first excludes other writers and announces itself: from then on
\* every new RLock() blocks.  It returns once the readers that hold the
\* lock have released it.  The lock is not reentrant for its own thread.
CanRLock == wmutex = NoThread
CanLock == wmutex = NoThread
ReadersGoneBroken == TRUE
ReadersGone == \A u \in Threads : rheld[u] = 0

\* --------------------------------------------------- the three switches
TypeOn(ht) == ht \in DOMAIN enabledTypes /\ enabledTypes[ht]
ScopeOnIfPresent(c, ht) ==
    c \in DOMAIN enabledScopes /\ ht \in DOMAIN enabledScopes[c]
ScopeOn(c, ht) ==
    /\ c \in DOMAIN enabledScopes
    /\ ht \in DOMAIN enabledScopes[c]
    /\ enabledScopes[c][ht]

\* ------------------------------------------------------ top-level calls
CallBudget(t) == IF t = "t1" THEN MaxCalls ELSE MaxWriterCalls
CanCall(t) == Idle(t) /\ calls[t] < CallBudget(t)

Start(t, g) ==
    /\ CanCall(t)
    /\ stack' = [stack EXCEPT ![t] = <<g>>]
    /\ calls' = [calls EXCEPT ![t] = @ + 1]
    /\ trace' = [trace EXCEPT ![t] = <<>>]
    /\ last' = [last EXCEPT ![t] = NoLast]
    /\ UNCHANGED <<regvars, lockvars, ormvars>>

WriterOps == {"RegisterHook", "EnableAll", "EnableType", "EnableScope"}

RegisterHookFrame(c, ht, fn) ==
    [Frame0 EXCEPT !.op = "RegisterHook", !.pc = "lock", !.coll = c, !.ht = ht, !.fn = fn]
EnableAllFrame(on) ==
    [Frame0 EXCEPT !.op = "EnableAll", !.pc = "lock", !.on = on]
EnableTypeFrame(ht, on) ==
    [Frame0 EXCEPT !.op = "EnableType", !.pc = "lock", !.ht = ht, !.on = on]
EnableScopeFrame(c, ht, on) ==
    [Frame0 EXCEPT !.op = "EnableScope", !.pc = "lock", !.coll = c, !.ht = ht, !.on = on]
RunHooksFrame(c, ht) ==
    [Frame0 EXCEPT !.op = "RunHooks", !.pc = "rlock", !.coll = c, !.ht = ht]

CallRegisterHook(t, c, ht, fn) ==
    /\ NumHooks < MaxHooks
    /\ Start(t, RegisterHookFrame(c, ht, fn))
CallEnableAll(t, on) == Start(t, EnableAllFrame(on))
CallEnableType(t, ht, on) == Start(t, EnableTypeFrame(ht, on))
CallEnableScope(t, c, ht, on) == Start(t, EnableScopeFrame(c, ht, on))
CallRunHooks(t, c, ht) == Start(t, RunHooksFrame(c, ht))

\* ---------------------------------------------- r.mu.Lock() of a writer
Lock(t) ==
    /\ ~Idle(t) /\ Top(t).op \in WriterOps /\ Top(t).pc = "lock"
    /\ CanLock
    /\ wmutex' = t
    /\ stack' = SetTop(t, [Top(t) EXCEPT !.pc = "wait"])
    /\ UNCHANGED <<regvars, rheld, calls, trace, last, ormvars>>

\* the writer's Lock() returns; its body runs; the deferred Unlock(); return
WriterBody(t, op) ==
    /\ Running(t, op, "wait")
    /\ wmutex = t
    /\ ReadersGone
    /\ wmutex' = NoThread
    /\ ReturnVars(t, [Top(t) EXCEPT !.snap = SnapOf(Top(t).coll, Top(t).ht)], Nil)
    /\ UNCHANGED <<rheld, calls, trace, ormvars>>

\* hooks.go RegisterHook: what it leaves in the three maps
ScopesAfterRegisterKeep(c, ht) ==
    LET m == IF c \in DOMAIN enabledScopes THEN enabledScopes[c] ELSE EmptyMap
    IN MapSet(enabledScopes, c, IF ht \in DOMAIN m THEN m ELSE MapSet(m, ht, TRUE))
ScopesAfterRegister(c, ht) ==
    LET m == IF c \in DOMAIN enabledScopes THEN enabledScopes[c] ELSE EmptyMap
    IN MapSet(enabledScopes, c, MapSet(m, ht, TRUE))
TypesAfterRegisterForce(ht) == MapSet(enabledTypes, ht, TRUE)
TypesAfterRegister(ht) ==
    IF ht \in DOMAIN enabledTypes THEN enabledTypes ELSE MapSet(enabledTypes, ht, TRUE)
HooksAfterRegisterPrepend(c, ht, fn) == [hooks EXCEPT ![c][ht] = <<fn>> \o @]
HooksAfterRegister(c, ht, fn) == [hooks EXCEPT ![c][ht] = Append(@, fn)]

RegisterHook(t) ==
    /\ WriterBody(t, "RegisterHook")
    /\ hooks' = HooksAfterRegister(Top(t).coll, Top(t).ht, Top(t).fn)
    /\ enabledScopes' = ScopesAfterRegister(Top(t).coll, Top(t).ht)
    /\ enabledTypes' = TypesAfterRegister(Top(t).ht)
    /\ UNCHANGED enabledAll

EnableAll(t) ==
    /\ WriterBody(t, "EnableAll")
    /\ enabledAll' = Top(t).on
    /\ UNCHANGED <<hooks, enabledTypes, enabledScopes>>

EnableType(t) ==
    /\ WriterBody(t, "EnableType")
    /\ enabledTypes' = MapSet(enabledTypes, Top(t).ht, Top(t).on)
    /\ UNCHANGED <<hooks, enabledAll, enabledScopes>>

EnableScope(t) ==
    /\ WriterBody(t, "EnableScope")
    /\ LET c == Top(t).coll
           m == IF c \in DOMAIN enabledScopes THEN enabledScopes[c] ELSE EmptyMap
       IN enabledScopes' = MapSet(enabledScopes, c, MapSet(m, Top(t).ht, Top(t).on))
    /\ UNCHANGED <<hooks, enabledAll, enabledTypes>>

\* ------------------------------------------------- hooks.go RunHooks
\* r.mu.RLock(); defer r.mu.RUnlock()
RLock(t) ==
    /\ Running(t, "RunHooks", "rlock")
    /\ CanRLock
    /\ rheld' = [rheld EXCEPT ![t] = @ + 1]
    /\ stack' = SetTop(t, [Top(t) EXCEPT !.pc = "check",
                                         !.snap = SnapOf(Top(t).coll, Top(t).ht)])
    /\ trace' = [trace EXCEPT ![t] = Append(@, <<"run", Top(t).coll, Top(t).ht, "", "">>)]
    /\ UNCHANGED <<regvars, wmutex, calls, last, ormvars>>

\* the master, per-HookType and per-collection+HookType switches
SwitchesOn(c, ht) == enabledAll /\ TypeOn(ht) /\ ScopeOn(c, ht)

\* "grab the slice"
GrabEmpty(c, ht) == <<>>
Grab(c, ht) == hooks[c][ht]

\* the three early returns, then fns := r.hooks[collection][ht]
RunHooksCheck(t) ==
    /\ Running(t, "RunHooks", "check")
    /\ LET f == Top(t)
           fns == IF SwitchesOn(f.coll, f.ht) THEN Grab(f.coll, f.ht) ELSE <<>>
       IN stack' = SetTop(t, [f EXCEPT !.fns = fns, !.i = 1,
                                       !.pc = IF fns = <<>> THEN "ret" ELSE "loop"])
    /\ UNCHANGED <<regvars, lockvars, calls, trace, last, ormvars>>

\* fmt.Errorf("hook %s on %s failed: %w", ht, collection, err)
HookError(f, cause) == Err("hook", f.ht, f.coll, cause)

\* the range loop goes to the next function, or ends
NextOfLoopStay(f) == [f EXCEPT !.pc = "loop"]
NextOfLoop(f) ==
    [f EXCEPT !.i = @ + 1, !.pc = IF f.i + 1 > Len(f.fns) THEN "ret" ELSE "loop"]

\* what the loop does with the error a hook function returned
AfterFnIgnore(f, fn, err) == NextOfLoop(f)
AfterFn(f, fn, err) ==
    IF err # Nil THEN [f EXCEPT !.err = HookError(f, fn), !.pc = "ret"]
    ELSE NextOfLoop(f)

\* the frame of the registry call a re-entrant hook function makes
ReentryFrame(f, fn) ==
    CASE Kind(fn) = "all" -> EnableAllFrame(FALSE)
      [] Kind(fn) = "type" -> EnableTypeFrame(f.ht, FALSE)
      [] Kind(fn) = "scope" -> EnableScopeFrame(f.coll, f.ht, FALSE)
      [] Kind(fn) = "reg" -> RegisterHookFrame(f.coll, f.ht, "h1")
      [] Kind(fn) = "run" -> RunHooksFrame(NestedColl, NestedType)

\* what a hook function that returns at once may return
FnErr(fn) == Err("fn", fn, "", "")
Returns(fn) ==
    CASE Kind(fn) = "ok" -> {Nil}
      [] Kind(fn) = "fail" -> {FnErr(fn)}
      [] Kind(fn) = "either" -> {Nil, FnErr(fn)}
      [] OTHER -> {}

Outcome(err) == IF err = Nil THEN "ok" ELSE "fail"

\* err := fn(ctx, data) for a function that returns at once
Invoke(t) ==
    /\ Running(t, "RunHooks", "loop")
    /\ LET f == Top(t)
           fn == f.fns[f.i]
           g == [f EXCEPT !.inv = Append(@, fn)]
       IN \E err \in Returns(fn) :
            /\ trace' = [trace EXCEPT ![t] =
                            Append(@, <<"hook", f.coll, f.ht, fn, Outcome(err)>>)]
            /\ stack' = SetTop(t, AfterFn(g, fn, err))
    /\ UNCHANGED <<regvars, lockvars, calls, last, ormvars>>

\* err := fn(ctx, data) for a function that calls back into the registry
InvokeReentrant(t) ==
    /\ Running(t, "RunHooks", "loop")
    /\ LET f == Top(t)
           fn == f.fns[f.i]
           g == [f EXCEPT !.inv = Append(@, fn), !.pc = "called"]
       IN /\ Returns(fn) = {}
          /\ trace' = [trace EXCEPT ![t] = Append(@, <<"hook", f.coll, f.ht, fn, "called">>)]
          /\ stack' = Push(t, g, ReentryFrame(f, fn))
    /\ UNCHANGED <<regvars, lockvars, calls, last, ormvars>>

\* the re-entrant function's registry call returned, and so does the function
HookReturns(t) ==
    /\ Running(t, "RunHooks", "called")
    /\ LET f == Top(t)
       IN stack' = SetTop(t, AfterFn(f, f.fns[f.i], f.ret))
    /\ UNCHANGED <<regvars, lockvars, calls, trace, last, ormvars>>

\* what an "edit" hook function does to the map it is handed
\*   hDrop   delete(m, "updated_at")
\*   hGhost  m["ghost"] = "x"
\*   hStamp  m["updated_at"] = "mine"
Edit(fn, m) ==
    CASE fn = "hDrop" -> [k \in DOMAIN m \ {"updated_at"} |-> m[k]]
      [] fn = "hGhost" -> MapSet(m, "ghost", "x")
      [] fn = "hStamp" -> MapSet(m, "updated_at", "mine")

\* err := fn(ctx, data) for a function that edits data: data is the map of
\* the Update that called RunHooks, a Go map, which the caller shares
InvokeEditor(t) ==
    /\ Running(t, "RunHooks", "loop")
    /\ LET n == Len(stack[t])
           f == Top(t)
           fn == f.fns[f.i]
           g == AfterFn([f EXCEPT !.inv = Append(@, fn)], fn, Nil)
       IN /\ Kind(fn) = "edit"
          /\ n > 1
          /\ stack[t][n - 1].op = "Update"
          /\ trace' = [trace EXCEPT ![t] = Append(@, <<"hook", f.coll, f.ht, fn, "ok">>)]
          /\ stack' = [stack EXCEPT ![t] =
                          [@ EXCEPT ![n] = g,
                                    ![n - 1] = [@ EXCEPT !.updates = Edit(fn, @)]]]
    /\ UNCHANGED <<regvars, lockvars, calls, last, ormvars>>

\* return (nil or the wrapped error), running the deferred r.mu.RUnlock()
RunHooksReturn(t) ==
    /\ Running(t, "RunHooks", "ret")
    /\ rheld' = [rheld EXCEPT ![t] = @ - 1]
    /\ ReturnVars(t, Top(t), Top(t).err)
    /\ UNCHANGED <<regvars, wmutex, calls, trace, ormvars>>

\* ============================================================ the ORM
\* ----------------------------------------------------------- Go values
ServerTimestamp == "ServerTimestamp"    \* firestore.ServerTimestamp
ServerTime == "server_time"             \* what the store writes for it
TimeNames == <<"T1", "T2", "T3", "T4", "T5", "T6", "T7", "T8">>
IDNames == <<"id1", "id2", "id3", "id4", "id5", "id6", "id7", "id8">>
Now == TimeNames[clock + 1]             \* time.Now()
NewUUID == IDNames[nextID + 1]          \* generateUUID()

\* ---------------------------------------------------------- registry.go
\* the ModelInfo RegisterModel builds for the Task model of the example: the
\* tags of its own fields (the embedded BaseModel carries no tag) and, from
\* the schema, the fields tagged validate:"required"
TaskInfo ==
    [CollectionName |-> "tasks", Schema |-> "main.Task",
     TagToFieldMap |-> [title |-> "Title", description |-> "Description", done |-> "Done"],
     Required |-> {"Title", "Description"}]

\* collectionName + "." + modelType.Name()
ModelKey(collectionName, modelName) == collectionName \o "." \o modelName

\* the struct types handed to RegisterModel: the example's Task, a struct of
\* another package that is also called Task, and a Note
ModelTypes == {"main.Task", "other.Task", "main.Note"}
\* reflect.Type.Name(): the name of the type without its package
TypeName(ty) == IF ty = "main.Note" THEN "Note" ELSE "Task"

\* the tag-to-field map built from the firestore and json tags of the
\* struct's own fields
TagToFieldMapOf(ty) ==
    CASE ty = "main.Task" -> TaskInfo.TagToFieldMap
      [] ty = "other.Task" -> [subject |-> "Subject"]
      [] OTHER -> [body |-> "Body"]
RequiredOf(ty) == IF ty = "main.Task" THEN TaskInfo.Required ELSE {}

\* ModelInfo{CollectionName, Schema, TagToFieldMap}
ModelInfoOf(ty, collectionName) ==
    [CollectionName |-> collectionName, Schema |-> ty,
     TagToFieldMap |-> TagToFieldMapOf(ty), Required |-> RequiredOf(ty)]
NoInfo == [CollectionName |-> "", Schema |-> "", TagToFieldMap |-> EmptyMap, Required |-> {}]

\* "if _, exists := modelRegistry[modelName]; exists { return nil, error }"
ExistsNever(modelName) == FALSE
Exists(modelName) == modelName \in DOMAIN modelRegistry

\* ------------------------------------------------ orm: ValidateStruct
ValidateStructKindOnly(data) ==
    IF data.kind \notin {"ptr", "struct"} THEN Err("not_struct", "", "", "") ELSE Nil
ValidateStruct(data) ==
    IF data.kind \notin {"ptr", "struct"} THEN Err("not_struct", "", "", "")
    ELSE IF data.Title = "" THEN Err("required", "Title", "", "")
    ELSE IF data.Description = "" THEN Err("required", "Description", "", "")
    ELSE Nil

\* ------------------------------------------ orm: validateUpdateFields
baseModelFields == {"deleted", "deleted_at", "updated_at"}

\* the errors validateUpdateFields can return for an update map (the range
\* over a Go map visits the keys in any order, so any offending key can be
\* the one reported); no error: it returns nil
UpdateFieldErrors(updates, b) ==
    LET key == ModelKey(b.CollectionName, b.ModelName) IN
    IF key \notin DOMAIN modelRegistry
    THEN {Err("not_registered", b.CollectionName, "", "")}
    ELSE LET info == modelRegistry[key]
             unknown == {k \in DOMAIN updates \ baseModelFields :
                            k \notin DOMAIN info.TagToFieldMap}
             empty == {k \in (DOMAIN updates \ baseModelFields) \ unknown :
                            /\ info.TagToFieldMap[k] \in info.Required
                            /\ updates[k] \in {"<nil>", ""}}
         IN {Err("unknown_field", k, b.CollectionName, "") : k \in unknown}
            \cup {Err("required", k, "", "") : k \in empty}

\* the orders in which "for updateKey, value := range updates" can visit
\* the keys of the map: Go leaves the order open
Orders(S) ==
    {o \in [1..Cardinality(S) -> S] : \A i, j \in DOMAIN o : i # j => o[i] # o[j]}

\* "value == nil || (Kind() == reflect.String && value == "")"
EmptyValueNilOnly(v) == v = "<nil>"
EmptyValue(v) == v \in {"<nil>", ""}

\* "if baseModelFields[updateKey] { continue }": the loop goes on
AfterProtectedKeyReturn(rest) == Nil
AfterProtectedKey(rest) == rest

\* the body of the loop for the keys order[i..], first error returned
RECURSIVE ValidateFrom(_, _, _, _, _)
ValidateFrom(order, i, updates, info, coll) ==
    IF i > Len(order) THEN Nil
    ELSE LET k == order[i]
             rest == ValidateFrom(order, i + 1, updates, info, coll)
         IN IF k \in baseModelFields THEN AfterProtectedKey(rest)
            ELSE IF k \notin DOMAIN info.TagToFieldMap
            THEN Err("unknown_field", k, coll, "")
            ELSE IF info.TagToFieldMap[k] \in info.Required /\ EmptyValue(updates[k])
            THEN Err("required", k, "", "")
            ELSE rest

\* GetModelInfo(collectionName + "." + modelName) comes first, for every map
LookupFails(updates, key) == key \notin DOMAIN modelRegistry

\* every error (or nil) validateUpdateFields can return for an update map
validateUpdateFields(updates, b) ==
    LET key == ModelKey(b.CollectionName, b.ModelName) IN
    IF LookupFails(updates, key)
    THEN {Err("not_registered", b.CollectionName, "", "")}
    ELSE {ValidateFrom(o, 1, updates, modelRegistry[key], b.CollectionName) :
            o \in Orders(DOMAIN updates)}

\* ------------------------------------------------- orm: parseFilter
\* Strings that parseFilter takes apart are sequences of characters.
Digits == <<"0", "1", "2", "3", "4", "5", "6", "7", "8", "9">>
IsDigit(c) == \E i \in 1..10 : Digits[i] = c
DigitVal(c) == (CHOOSE i \in 1..10 : Digits[i] = c) - 1
Num2(s, i) == 10 * DigitVal(s[i]) + DigitVal(s[i + 1])
Num4(s, i) == 100 * Num2(s, i) + Num2(s, i + 2)

IsLeap(y) == (y % 4 = 0 /\ y % 100 # 0) \/ y % 400 = 0
DaysIn(y, m) ==
    IF m = 2 THEN (IF IsLeap(y) THEN 29 ELSE 28)
    ELSE IF m \in {4, 6, 9, 11} THEN 30 ELSE 31

StringValue(s) == [NilValue EXCEPT !.kind = "string", !.s = s]
TimeValue(y, m, d) == [NilValue EXCEPT !.kind = "time", !.y = y, !.m = m, !.d = d]

\* time.Parse("2006-01-02", s): four digits, "-", two digits, "-", two
\* digits and nothing else; the month and the day must exist
DateWellFormed(s) ==
    /\ Len(s) = 10
    /\ s[5] = "-" /\ s[8] = "-"
    /\ \A i \in {1, 2, 3, 4, 6, 7, 9, 10} : IsDigit(s[i])
ParsesAsDate(s) ==
    /\ DateWellFormed(s)
    /\ Num2(s, 6) \in 1..12
    /\ Num2(s, 9) \in 1..DaysIn(Num4(s, 1), Num2(s, 6))
ParsedDate(s) == TimeValue(Num4(s, 1), Num2(s, 6), Num2(s, 9))

\* strings.Contains(key, "__") and strings.SplitN(key, "__", 2)
SepAt(key) == {i \in 1..(Len(key) - 1) : key[i] = "_" /\ key[i + 1] = "_"}
ContainsSep(key) == SepAt(key) # {}
FirstSep(key) == CHOOSE i \in SepAt(key) : \A j \in SepAt(key) : i <= j
SplitField(key) == SubSeq(key, 1, FirstSep(key) - 1)
SplitSuffix(key) == SubSeq(key, FirstSep(key) + 2, Len(key))

\* the switch on parts[1]
OpOfSuffixStrict(suffix) ==
    CASE suffix = <<"g", "t">> -> ">"
      [] suffix = <<"g", "t", "e">> -> ">="
      [] suffix = <<"l", "t">> -> "<"
      [] suffix = <<"l", "t", "e">> -> "<="
      [] OTHER -> ""
OpOfSuffix(suffix) ==
    CASE suffix = <<"g", "t">> -> ">"
      [] suffix = <<"g", "t", "e">> -> ">="
      [] suffix = <<"l", "t">> -> "<"
      [] suffix = <<"l", "t", "e">> -> "<="
      [] OTHER -> "=="

\* the simple case: a string that does not parse is kept
LenientDateStrict(key, field, op, value) ==
    IF ParsesAsDate(value.s)
    THEN [NoOut EXCEPT !.field = field, !.op = op, !.newValue = ParsedDate(value.s)]
    ELSE [NoOut EXCEPT !.err = Err("invalid_date", "", "", ""), !.errKey = key]
LenientDate(key, field, op, value) ==
    [NoOut EXCEPT !.field = field, !.op = op,
                  !.newValue = IF ParsesAsDate(value.s) THEN ParsedDate(value.s) ELSE value]

\* the operator case: a string that does not parse is an error naming the key
StrictDateLenient(key, field, op, value) ==
    [NoOut EXCEPT !.field = field, !.op = op,
                  !.newValue = IF ParsesAsDate(value.s) THEN ParsedDate(value.s) ELSE value]
StrictDate(key, field, op, value) ==
    IF ParsesAsDate(value.s)
    THEN [NoOut EXCEPT !.field = field, !.op = op, !.newValue = ParsedDate(value.s)]
    ELSE [NoOut EXCEPT !.err = Err("invalid_date", "", "", ""), !.errKey = key]

parseFilter(key, value) ==
    IF ~ContainsSep(key)
    THEN IF value.kind = "list"
         THEN [NoOut EXCEPT !.field = key, !.op = "in", !.newValue = value]
         ELSE IF value.kind = "string"
         THEN LenientDate(key, key, "==", value)
         ELSE [NoOut EXCEPT !.field = key, !.op = "==", !.newValue = value]
    ELSE LET field == SplitField(key)
             op == OpOfSuffix(SplitSuffix(key))
         IN IF value.kind = "string"
            THEN StrictDate(key, field, op, value)
            ELSE [NoOut EXCEPT !.field = field, !.op = op, !.newValue = value]

\* ---------------------------------------- orm: applyOperatorFilters
\* The caller writes the filters as a list of entries (key, value), in the
\* order it inserts them; the Go map keeps the entries, not their order.
FilterMap(entries) ==
    [k \in {entries[i].key : i \in DOMAIN entries} |->
        (CHOOSE e \in {entries[i] : i \in DOMAIN entries} : e.key = k).val]

\* a firestore query is the list of what was applied to it
Pred(out) == [field |-> out.field, op |-> out.op, value |-> out.newValue]

\* "query = query.Where(field, op, newValue)"
WhereReplace(query, pred) == <<pred>>
Where(query, pred) == Append(query, pred)

\* the body of the loop for the keys order[i..]
RECURSIVE ApplyFrom(_, _, _, _)
ApplyFrom(order, i, m, query) ==
    IF i > Len(order) THEN [query |-> query, err |-> Nil, errKey |-> <<>>]
    ELSE LET r == parseFilter(order[i], m[order[i]])
         IN IF r.err # Nil
            THEN [query |-> query, err |-> r.err, errKey |-> r.errKey]
            ELSE ApplyFrom(order, i + 1, m, Where(query, Pred(r)))

\* every (query, err) applyOperatorFilters can return: "for key, value :=
\* range filters" visits the keys of the map in any order
applyOperatorFilters(query, m) ==
    {ApplyFrom(o, 1, m, query) : o \in Orders(DOMAIN m)}

\* ------------------------------------------------- the document store
DocKey(coll, id) == <<coll, id>>

\* the document Set stores for a record
DocOf(data) ==
    [id |-> data.ID, created_at |-> data.CreatedAt, updated_at |-> data.UpdatedAt,
     deleted |-> data.Deleted, title |-> data.Title, description |-> data.Description]

\* utils.go updatesToFirestoreUpdates: one firestore.Update per key
updatesToFirestoreUpdates(updates) ==
    {[Path |-> k, Value |-> updates[k]] : k \in DOMAIN updates}

\* the document after the store applied the updates
ApplyUpdates(doc, fsu) ==
    [k \in (DOMAIN doc) \cup {u.Path : u \in fsu} |->
        IF \E u \in fsu : u.Path = k
        THEN LET v == (CHOOSE u \in fsu : u.Path = k).Value
             IN IF v = ServerTimestamp THEN ServerTime ELSE v
        ELSE doc[k]]

StoreErr(what) == Err("store", what, "", "")

\* Doc(id).Set(ctx, data): the store takes the write, or fails
StoreSet(coll, id, data, ok) ==
    /\ writes' = Append(writes, [kind |-> "Set", coll |-> coll, id |-> id, ok |-> ok,
                                 sent |-> DocOf(data),
                                 after |-> IF ok THEN DocOf(data) ELSE EmptyMap])
    /\ store' = IF ok THEN MapSet(store, DocKey(coll, id), DocOf(data)) ELSE store

\* Doc(id).Update(ctx, updates): fails when the document does not exist
StoreUpdate(coll, id, fsu, ok) ==
    LET key == DocKey(coll, id)
        done == ok /\ key \in DOMAIN store
        doc == IF done THEN ApplyUpdates(store[key], fsu) ELSE EmptyMap
    IN /\ writes' = Append(writes, [kind |-> "Update", coll |-> coll, id |-> id,
                                    ok |-> done, sent |-> fsu, after |-> doc])
       /\ store' = IF done THEN MapSet(store, key, doc) ELSE store

StoreResult(done) == IF done THEN Nil ELSE StoreErr("failed")

\* Client.Collection(name).Where("deleted", "==", false)
BoolFalse == [NilValue EXCEPT !.kind = "bool"]
BoolTrue == [NilValue EXCEPT !.kind = "bool", !.y = 1]
\* the predicate ("deleted", "==", false)
NotDeleted ==
    [field |-> <<"d", "e", "l", "e", "t", "e", "d">>, op |-> "==", value |-> BoolFalse]
BaseQueryAll == <<>>
BaseQuery == <<NotDeleted>>

\* ------------------------------------------------- the store's queries
\* the strings documents are ordered by, in their lexical order
StrOrder ==
    <<"", "T0", "T1", "T2", "T3", "T4", "T5", "T6", "T7", "T8", "a", "b",
      "d0", "d1", "d2", "d3", "id1", "id2", "id3", "id4", "id5", "id6", "id7", "id8", "t">>
Rank(str) == CHOOSE i \in DOMAIN StrOrder : StrOrder[i] = str

DocIdsOf(coll) == {k[2] : k \in {k \in DOMAIN store : k[1] = coll}}

\* the value of a document's field, for the fields the filters name
DeletedField == <<"d", "e", "l", "e", "t", "e", "d">>
TitleField == <<"t", "i", "t", "l", "e">>
TitleValue(doc) == StringValue(IF doc.title = "" THEN <<>> ELSE <<doc.title>>)

\* a document satisfies Where(field, op, value); a document without the
\* field satisfies no predicate on it (the filters here compare for equality)
Matches(doc, p) ==
    CASE p.field = DeletedField ->
            p.op = "==" /\ p.value.kind = "bool" /\ (doc.deleted = "true") = (p.value.y = 1)
      [] p.field = TitleField -> p.op = "==" /\ p.value = TitleValue(doc)
      [] OTHER -> FALSE

\* the position of a document in the order of a query: its sort field,
\* then its identifier
SortValue(doc, sortField) ==
    CASE sortField = "title" -> doc.title
      [] sortField = "created_at" -> doc.created_at
      [] OTHER -> ""
Before(coll, sortField, order, a, b) ==
    LET ka == Rank(SortValue(store[DocKey(coll, a)], sortField))
        kb == Rank(SortValue(store[DocKey(coll, b)], sortField))
    IN IF order = "desc"
       THEN ka > kb \/ (ka = kb /\ Rank(a) > Rank(b))
       ELSE ka < kb \/ (ka = kb /\ Rank(a) < Rank(b))

\* query.Documents(ctx): the identifiers of the documents of the collection
\* that satisfy every predicate, after the cursor document, in order, capped
QueryResult(coll, query, sortField, order, after, cap) ==
    LET hits == {id \in DocIdsOf(coll) :
                    /\ \A i \in DOMAIN query : Matches(store[DocKey(coll, id)], query[i])
                    /\ after # "" => Before(coll, sortField, order, after, id)}
        sorted == CHOOSE o \in Orders(hits) :
                    \A i, j \in DOMAIN o : i < j => Before(coll, sortField, order, o[i], o[j])
    IN IF cap > 0 /\ Len(sorted) > cap THEN SubSeq(sorted, 1, cap) ELSE sorted

\* ------------------------------------------------------ frames and calls
CreateFrame(recv, data) ==
    [Frame0 EXCEPT !.op = "Create", !.pc = "begin", !.recv = recv, !.data = data]
UpdateFrame(recv, id, updates) ==
    [Frame0 EXCEPT !.op = "Update", !.pc = "begin", !.recv = recv, !.id = id,
                   !.updates = updates]
DeleteFrame(recv, id) ==
    [Frame0 EXCEPT !.op = "Delete", !.pc = "begin", !.recv = recv, !.id = id]

CallCreate(t, recv, data) == Start(t, CreateFrame(recv, data))
CallUpdate(t, recv, id, updates) == Start(t, UpdateFrame(recv, id, updates))
CallDelete(t, recv, id) == Start(t, DeleteFrame(recv, id))

Log(t, e) == trace' = [trace EXCEPT ![t] = Append(@, e)]

\* return err from the top frame, nothing else changes
ReturnOnly(t, err) ==
    /\ ReturnVars(t, Top(t), err)
    /\ UNCHANGED <<regvars, lockvars, calls, ormvars>>

\* "if err := ValidateStruct(data); err != nil { return err }" and
\* "if err := validateUpdateFields(updates, b); err != nil { return err }"
ValidationAbortsNever(verr) == FALSE
ValidationAborts(verr) == verr # Nil

\* "if err := RunHooks(pre...); err != nil { return err }"
PreHookAbortsNever(err) == FALSE
PreHookAborts(err) == err # Nil

\* whether the post-event hooks are run after the store call returned err:
\* Create and Update run them always, Delete only "if err == nil"
RunsPostOnlyOnSuccess(op, err) == err = Nil
RunsPostAlways(op, err) == TRUE
RunsPost(op, err) == IF op = "Delete" THEN err = Nil ELSE TRUE

\* "_ = RunHooks(post...); return err": the result of the mutation
ResultOrPostError(err, post) == IF err = Nil THEN post ELSE err
Result(err, post) == err

\* ----------------------------------------------------- BaseModel.Create
\* EnsureCollection, ValidateStruct, the pointer check, setID, setTimestamps,
\* the copy into the record, then RunHooks(PreCreate)
CreateBegin(t) ==
    /\ Running(t, "Create", "begin")
    /\ LET f == Top(t)
           b == bm[f.recv]
           verr == ValidateStruct(f.data)
       IN IF b.CollectionName = ""
          THEN /\ ReturnVars(t, f, Err("no_collection", "", "", ""))
               /\ UNCHANGED <<trace, bm, nextID, clock>>
          ELSE IF ValidationAborts(verr)
          THEN /\ ReturnVars(t, f, verr)
               /\ Log(t, <<"validate", "Create", Outcome(verr), "", "">>)
               /\ UNCHANGED <<bm, nextID, clock>>
          ELSE IF f.data.kind # "ptr"
          THEN /\ ReturnVars(t, f, Err("not_pointer", "", "", ""))
               /\ Log(t, <<"validate", "Create", Outcome(verr), "", "">>)
               /\ UNCHANGED <<bm, nextID, clock>>
          ELSE LET b2 == [b EXCEPT !.ID = NewUUID,
                                   !.CreatedAt = IF b.CreatedAt = "" THEN Now ELSE @,
                                   !.UpdatedAt = Now,
                                   !.DeletedAt = ""]
                   d2 == [f.data EXCEPT !.ID = b2.ID, !.CreatedAt = b2.CreatedAt,
                                        !.UpdatedAt = b2.UpdatedAt, !.DeletedAt = "",
                                        !.Deleted = "false"]
               IN /\ bm' = [bm EXCEPT ![f.recv] = b2]
                  /\ nextID' = nextID + 1
                  /\ clock' = clock + 1
                  /\ Log(t, <<"validate", "Create", Outcome(verr), "", "">>)
                  /\ stack' = Push(t, [f EXCEPT !.pc = "pre", !.data = d2],
                                   RunHooksFrame(b.CollectionName, PreCreate))
                  /\ last' = last
    /\ UNCHANGED <<regvars, lockvars, calls, modelRegistry, store, writes>>

\* the pre_create hooks returned: return their error, or Set the document
\* under b.ID and run RunHooks(PostCreate)
CreateStore(t) ==
    /\ Running(t, "Create", "pre")
    /\ LET f == Top(t)
           b == bm[f.recv]
       IN IF PreHookAborts(f.ret)
          THEN /\ ReturnVars(t, f, f.ret)
               /\ UNCHANGED <<trace, store, writes>>
          ELSE \E ok \in BOOLEAN :
                /\ StoreSet(b.CollectionName, b.ID, f.data, ok)
                /\ Log(t, <<"store", "Set", b.CollectionName, b.ID, Outcome(StoreResult(ok))>>)
                /\ IF RunsPost("Create", StoreResult(ok))
                   THEN /\ stack' = Push(t, [f EXCEPT !.pc = "post", !.err = StoreResult(ok)],
                                         RunHooksFrame(b.CollectionName, PostCreate))
                        /\ last' = last
                   ELSE ReturnVars(t, f, StoreResult(ok))
    /\ UNCHANGED <<regvars, lockvars, calls, modelRegistry, bm, nextID, clock>>

\* the post_create hooks returned: their error is dropped
CreateEnd(t) ==
    /\ Running(t, "Create", "post")
    /\ ReturnOnly(t, Result(Top(t).err, Top(t).ret))
    /\ UNCHANGED trace

\* ----------------------------------------------------- BaseModel.Update
\* EnsureCollection, validateUpdateFields, updates["updated_at"] =
\* firestore.ServerTimestamp, then RunHooks(PreUpdate)
UpdateBegin(t) ==
    /\ Running(t, "Update", "begin")
    /\ LET f == Top(t)
           b == bm[f.recv]
       IN IF b.CollectionName = ""
          THEN /\ ReturnVars(t, f, Err("no_collection", "", "", ""))
               /\ UNCHANGED trace
          ELSE \E verr \in validateUpdateFields(f.updates, b) :
                IF ValidationAborts(verr)
                THEN /\ ReturnVars(t, f, verr)
                     /\ Log(t, <<"validate", "Update", Outcome(verr), "", "">>)
                ELSE /\ Log(t, <<"validate", "Update", Outcome(verr), "", "">>)
                     /\ stack' = Push(t, [f EXCEPT !.pc = "pre",
                                            !.updates = MapSet(@, "updated_at", ServerTimestamp)],
                                      RunHooksFrame(b.CollectionName, PreUpdate))
                     /\ last' = last
    /\ UNCHANGED <<regvars, lockvars, calls, ormvars>>

\* the pre_update hooks returned: return their error, or send the update to
\* the store and run RunHooks(PostUpdate)
UpdateStore(t) ==
    /\ Running(t, "Update", "pre")
    /\ LET f == Top(t)
           b == bm[f.recv]
       IN IF PreHookAborts(f.ret)
          THEN /\ ReturnVars(t, f, f.ret)
               /\ UNCHANGED <<trace, store, writes>>
          ELSE \E ok \in BOOLEAN :
                LET done == ok /\ DocKey(b.CollectionName, f.id) \in DOMAIN store IN
                /\ StoreUpdate(b.CollectionName, f.id, updatesToFirestoreUpdates(f.updates), ok)
                /\ Log(t, <<"store", "Update", b.CollectionName, f.id, Outcome(StoreResult(done))>>)
                /\ IF RunsPost("Update", StoreResult(done))
                   THEN /\ stack' = Push(t, [f EXCEPT !.pc = "post", !.err = StoreResult(done)],
                                         RunHooksFrame(b.CollectionName, PostUpdate))
                        /\ last' = last
                   ELSE ReturnVars(t, f, StoreResult(done))
    /\ UNCHANGED <<regvars, lockvars, calls, modelRegistry, bm, nextID, clock>>

\* the post_update hooks returned: their error is dropped
UpdateEnd(t) ==
    /\ Running(t, "Update", "post")
    /\ ReturnOnly(t, Result(Top(t).err, Top(t).ret))
    /\ UNCHANGED trace

\* ----------------------------------------------------- BaseModel.Delete
\* RunHooks(PreDelete) on the identifier
DeleteBegin(t) ==
    /\ Running(t, "Delete", "begin")
    /\ stack' = Push(t, [Top(t) EXCEPT !.pc = "pre"],
                     RunHooksFrame(bm[Top(t).recv].CollectionName, PreDelete))
    /\ UNCHANGED <<regvars, lockvars, calls, trace, last, ormvars>>

\* "err := b.Update(ctx, id, updates)": the call Delete makes
SoftDeleteFramePastHooks(recv, id, updates) ==
    [UpdateFrame(recv, id, updates) EXCEPT !.pc = "pre"]
SoftDeleteFrame(recv, id, updates) == UpdateFrame(recv, id, updates)

\* the pre_delete hooks returned: return their error, or build the
\* soft-delete map and call b.Update
DeleteUpdate(t) ==
    /\ Running(t, "Delete", "pre")
    /\ LET f == Top(t)
           updates == [deleted |-> "true", deleted_at |-> Now,
                       updated_at |-> ServerTimestamp]
       IN IF PreHookAborts(f.ret)
          THEN /\ ReturnVars(t, f, f.ret)
               /\ clock' = clock
          ELSE /\ stack' = Push(t, [f EXCEPT !.pc = "update", !.updates = updates],
                                SoftDeleteFrame(f.recv, f.id, updates))
               /\ clock' = clock + 1
               /\ last' = last
    /\ UNCHANGED <<regvars, lockvars, calls, trace, modelRegistry, bm, store, writes, nextID>>

\* b.Update returned: run RunHooks(PostDelete) if it succeeded
DeleteAfterUpdate(t) ==
    /\ Running(t, "Delete", "update")
    /\ LET f == Top(t)
       IN IF RunsPost("Delete", f.ret)
          THEN /\ stack' = Push(t, [f EXCEPT !.pc = "post", !.err = f.ret],
                                RunHooksFrame(bm[f.recv].CollectionName, PostDelete))
               /\ last' = last
          ELSE ReturnVars(t, f, f.ret)
    /\ UNCHANGED <<regvars, lockvars, calls, trace, ormvars>>

\* the post_delete hooks returned: their error is dropped
DeleteEnd(t) ==
    /\ Running(t, "Delete", "post")
    /\ ReturnOnly(t, Result(Top(t).err, Top(t).ret))
    /\ UNCHANGED trace

OrmStep(t) ==
    \/ CreateBegin(t)
    \/ CreateStore(t)
    \/ CreateEnd(t)
    \/ UpdateBegin(t)
    \/ UpdateStore(t)
    \/ UpdateEnd(t)
    \/ DeleteBegin(t)
    \/ DeleteUpdate(t)
    \/ DeleteAfterUpdate(t)
    \/ DeleteEnd(t)

\* --------------------------------------------------------- BaseModel.List
\* results points to a slice of the caller that holds the items had; List
\* appends to it (items are the ones this call appended)
ListFrame(recv, entries, limit, startAfter, sortField, sortOrder, results) ==
    [Frame0 EXCEPT !.op = "List", !.pc = "begin", !.recv = recv, !.filters = entries,
                   !.limit = limit, !.startAfter = startAfter,
                   !.sortField = sortField, !.sortOrder = sortOrder, !.had = results]
CallList(t, recv, entries, limit, startAfter, sortField, sortOrder, results) ==
    Start(t, ListFrame(recv, entries, limit, startAfter, sortField, sortOrder, results))

\* *results as the caller sees it
ResultsSlice(f) == f.had \o f.items

\* "if limit > 0 && resultsVal.Len() == limit": the ID of the last element
NextPageTokenAlways(limit, results) ==
    IF results # <<>> THEN results[Len(results)] ELSE ""
NextPageToken(limit, results) ==
    IF limit > 0 /\ Len(results) = limit THEN results[Len(results)] ELSE ""

\* return "", err
ListFails(f, err) == [f EXCEPT !.pc = "done", !.err = err, !.token = ""]

\* "if sortField != "" { if sortOrder == "asc" ... else if "desc" ... else error }"
SortOrderDefaulted(sortField, sortOrder) == TRUE
SortOrderOK(sortField, sortOrder) == sortField = "" \/ sortOrder \in {"asc", "desc"}

\* "doc, err := ...Doc(startAfter).Get(ctx); if err != nil { return }"
CursorFetchIgnored(found) == FALSE
CursorFetchFails(found) == ~found

\* EnsureCollection, the base query, applyOperatorFilters, the sort order
ListBegin(t) ==
    /\ Running(t, "List", "begin")
    /\ LET f == Top(t)
           b == bm[f.recv]
       IN IF b.CollectionName = ""
          THEN stack' = SetTop(t, ListFails(f, Err("no_collection", "", "", "")))
          ELSE \E r \in applyOperatorFilters(BaseQuery, FilterMap(f.filters)) :
                IF r.err # Nil
                THEN stack' = SetTop(t, ListFails(f, r.err))
                ELSE IF ~SortOrderOK(f.sortField, f.sortOrder)
                THEN stack' = SetTop(t, ListFails(f, Err("invalid_sort_order", f.sortOrder, "", "")))
                ELSE stack' = SetTop(t, [f EXCEPT
                        !.query = r.query,
                        !.qOrder = IF f.sortField # "" THEN f.sortOrder ELSE "",
                        !.pc = IF f.startAfter # "" THEN "cursor" ELSE "run"])
    /\ UNCHANGED <<regvars, lockvars, calls, trace, last, ormvars>>

\* the startAfter token: fetch the document it names
ListCursor(t) ==
    /\ Running(t, "List", "cursor")
    /\ LET f == Top(t)
           coll == bm[f.recv].CollectionName
       IN \E ok \in BOOLEAN :
            LET found == ok /\ DocKey(coll, f.startAfter) \in DOMAIN store IN
            /\ Log(t, <<"get", coll, f.startAfter, IF found THEN "ok" ELSE "fail", "">>)
            /\ IF CursorFetchFails(found)
               THEN stack' = SetTop(t, ListFails(f, Err("invalid_token", f.startAfter, "", "")))
               ELSE stack' = SetTop(t, [f EXCEPT !.qAfter = f.startAfter, !.pc = "run"])
    /\ UNCHANGED <<regvars, lockvars, calls, last, ormvars>>

\* the limit, then query.Documents(ctx)
ListRun(t) ==
    /\ Running(t, "List", "run")
    /\ LET f == Top(t)
           coll == bm[f.recv].CollectionName
           cap == IF f.limit > 0 THEN f.limit ELSE 0
       IN /\ Log(t, <<"query", coll, f.qAfter, f.qOrder, "">>)
          /\ stack' = SetTop(t, [f EXCEPT
                !.qLimit = cap, !.pc = "iter",
                !.pending = QueryResult(coll, f.query, f.sortField, f.qOrder, f.qAfter, cap)])
    /\ UNCHANGED <<regvars, lockvars, calls, last, ormvars>>

\* iter.Next(): iterator.Done, an error, or a document appended to results
ListNext(t) ==
    /\ Running(t, "List", "iter")
    /\ LET f == Top(t)
           coll == bm[f.recv].CollectionName
       IN IF f.pending = <<>>
          THEN stack' = SetTop(t, [f EXCEPT !.pc = "finish"])
          ELSE \E ok \in BOOLEAN :
                IF ok
                THEN stack' = SetTop(t, [f EXCEPT
                        !.items = Append(@, store[DocKey(coll, Head(f.pending))].id),
                        !.pending = Tail(@)])
                ELSE stack' = SetTop(t, ListFails(f, Err("iterate", "", "", "")))
    /\ UNCHANGED <<regvars, lockvars, calls, trace, last, ormvars>>

\* the next page token, return nextPageToken, nil
ListFinish(t) ==
    /\ Running(t, "List", "finish")
    /\ LET f == Top(t)
       IN stack' = SetTop(t, [f EXCEPT
                !.pc = "done", !.err = Nil,
                !.token = NextPageToken(f.limit, ResultsSlice(f))])
    /\ UNCHANGED <<regvars, lockvars, calls, trace, last, ormvars>>

ListReturn(t) ==
    /\ Running(t, "List", "done")
    /\ ReturnOnly(t, Top(t).err)
    /\ UNCHANGED trace

ListStep(t) ==
    \/ ListBegin(t)
    \/ ListCursor(t)
    \/ ListRun(t)
    \/ ListNext(t)
    \/ ListFinish(t)
    \/ ListReturn(t)

\* ------------------------------------ BaseModel.Get, FindOneBy, FindOne, Last
\* doc.DataTo(model): the record filled from a document
DataOf(doc) ==
    [NoData EXCEPT !.kind = "ptr", !.ID = doc.id, !.Title = doc.title,
                   !.Description = doc.description, !.CreatedAt = doc.created_at,
                   !.UpdatedAt = doc.updated_at, !.Deleted = doc.deleted]

GetFrame(recv, id) == [Frame0 EXCEPT !.op = "Get", !.pc = "begin", !.recv = recv, !.id = id]
FindOneByFrame(recv, property, value) ==
    [Frame0 EXCEPT !.op = "FindOneBy", !.pc = "begin", !.recv = recv,
                   !.property = property, !.val = value]
FindOneFrame(recv, entries) ==
    [Frame0 EXCEPT !.op = "FindOne", !.pc = "begin", !.recv = recv, !.filters = entries]
LastFrame(recv) == [Frame0 EXCEPT !.op = "Last", !.pc = "begin", !.recv = recv]
CountFrame(recv, entries) ==
    [Frame0 EXCEPT !.op = "Count", !.pc = "begin", !.recv = recv, !.filters = entries]

CallGet(t, recv, id) == Start(t, GetFrame(recv, id))
CallFindOneBy(t, recv, property, value) == Start(t, FindOneByFrame(recv, property, value))
CallFindOne(t, recv, entries) == Start(t, FindOneFrame(recv, entries))
CallLast(t, recv) == Start(t, LastFrame(recv))
CallCount(t, recv, entries) == Start(t, CountFrame(recv, entries))

\* the call ends with err, or with the record of the document id
ReadFails(f, err) == [f EXCEPT !.pc = "done", !.err = err]
ReadGives(f, coll, id) ==
    [f EXCEPT !.pc = "done", !.err = Nil, !.data = DataOf(store[DocKey(coll, id)])]

\* what Get does once the document is mapped to the model
AfterGetRefuseDeleted(f, coll, id) ==
    IF store[DocKey(coll, id)].deleted = "true"
    THEN ReadFails(f, Err("deleted", id, "", ""))
    ELSE ReadGives(f, coll, id)
AfterGet(f, coll, id) == ReadGives(f, coll, id)

\* Get: EnsureCollection, Doc(id).Get, doc.DataTo(model)
Get(t) ==
    /\ Running(t, "Get", "begin")
    /\ LET f == Top(t)
           coll == bm[f.recv].CollectionName
       IN IF coll = ""
          THEN stack' = SetTop(t, ReadFails(f, Err("no_collection", "", "", "")))
          ELSE \E ok \in BOOLEAN :
                IF ok /\ DocKey(coll, f.id) \in DOMAIN store
                THEN stack' = SetTop(t, AfterGet(f, coll, f.id))
                ELSE stack' = SetTop(t, ReadFails(f, StoreErr("get")))
    /\ UNCHANGED <<regvars, lockvars, calls, trace, last, ormvars>>

\* query.Limit(1), iter.Next(): iterator.Done, an error or the first document
FirstOf(t, f, coll, query, sortField, order, missing) ==
    LET hits == QueryResult(coll, query, sortField, order, "", 1)
    IN \E ok \in BOOLEAN :
        IF ~ok THEN stack' = SetTop(t, ReadFails(f, StoreErr("iterate")))
        ELSE IF hits = <<>> THEN stack' = SetTop(t, ReadFails(f, Err(missing, "", "", "")))
        ELSE stack' = SetTop(t, ReadGives(f, coll, hits[1]))

\* FindOneBy: Where(property, "==", value).Where("deleted", "==", false).Limit(1)
FindOneBy(t) ==
    /\ Running(t, "FindOneBy", "begin")
    /\ LET f == Top(t)
           coll == bm[f.recv].CollectionName
           query == Where(Where(<<>>, [field |-> f.property, op |-> "==", value |-> f.val]),
                          NotDeleted)
       IN IF coll = ""
          THEN stack' = SetTop(t, ReadFails(f, Err("no_collection", "", "", "")))
          ELSE FirstOf(t, f, coll, query, "", "", "no_document")
    /\ UNCHANGED <<regvars, lockvars, calls, trace, last, ormvars>>

\* FindOne: the base query, applyOperatorFilters, Limit(1)
FindOne(t) ==
    /\ Running(t, "FindOne", "begin")
    /\ LET f == Top(t)
           coll == bm[f.recv].CollectionName
       IN IF coll = ""
          THEN stack' = SetTop(t, ReadFails(f, Err("no_collection", "", "", "")))
          ELSE \E r \in applyOperatorFilters(BaseQuery, FilterMap(f.filters)) :
                IF r.err # Nil
                THEN stack' = SetTop(t, ReadFails(f, r.err))
                ELSE FirstOf(t, [f EXCEPT !.query = r.query], coll, r.query, "", "",
                             "no_document")
    /\ UNCHANGED <<regvars, lockvars, calls, trace, last, ormvars>>

\* Last: the base query, OrderBy("created_at", Desc), Limit(1)
Last(t) ==
    /\ Running(t, "Last", "begin")
    /\ LET f == Top(t)
           coll == bm[f.recv].CollectionName
       IN IF coll = ""
          THEN stack' = SetTop(t, ReadFails(f, Err("no_collection", "", "", "")))
          ELSE FirstOf(t, [f EXCEPT !.query = BaseQuery], coll, BaseQuery,
                       "created_at", "desc", "no_records")
    /\ UNCHANGED <<regvars, lockvars, calls, trace, last, ormvars>>

\* Count: the base query, applyOperatorFilters, then one count++ per
\* document the iterator yields; return 0, err when it fails
Count(t) ==
    /\ Running(t, "Count", "begin")
    /\ LET f == Top(t)
           coll == bm[f.recv].CollectionName
       IN IF coll = ""
          THEN stack' = SetTop(t, ReadFails(f, Err("no_collection", "", "", "")))
          ELSE \E r \in applyOperatorFilters(BaseQuery, FilterMap(f.filters)) :
                IF r.err # Nil
                THEN stack' = SetTop(t, ReadFails(f, r.err))
                ELSE \E ok \in BOOLEAN :
                        IF ok
                        THEN stack' = SetTop(t, [f EXCEPT
                                !.pc = "done", !.err = Nil, !.query = r.query,
                                !.count = Len(QueryResult(coll, r.query, "", "", "", 0))])
                        ELSE stack' = SetTop(t, [ReadFails(f, StoreErr("iterate"))
                                                    EXCEPT !.count = 0])
    /\ UNCHANGED <<regvars, lockvars, calls, trace, last, ormvars>>

ReadOps == {"Get", "FindOneBy", "FindOne", "Last", "Count"}
ReadReturn(t) ==
    /\ ~Idle(t)
    /\ Top(t).op \in ReadOps
    /\ Top(t).pc = "done"
    /\ ReturnOnly(t, Top(t).err)
    /\ UNCHANGED trace

\* ------------------------------ registry.go: RegisterModel, GetModelInfo
\* the goroutines other than t that are inside RegisterModel or GetModelInfo
\* and have not returned: modelRegistry is a plain map without a lock
OthersInRegistry(t) ==
    {u \in Threads \ {t} :
        ~Idle(u) /\ stack[u][Len(stack[u])].op \in {"RegisterModel", "GetModelInfo"}}

RegisterModelFrame(ty, collectionName, recv) ==
    [Frame0 EXCEPT !.op = "RegisterModel", !.pc = "check", !.model = ty,
                   !.coll = collectionName, !.recv = recv]
GetModelInfoFrame(modelName) ==
    [Frame0 EXCEPT !.op = "GetModelInfo", !.pc = "begin", !.modelName = modelName,
                   !.info = NoInfo]
CallRegisterModel(t, ty, collectionName, recv) ==
    Start(t, RegisterModelFrame(ty, collectionName, recv))
CallGetModelInfo(t, modelName) == Start(t, GetModelInfoFrame(modelName))

\* RegisterModel up to the existence check
RegisterModelCheck(t) ==
    /\ Running(t, "RegisterModel", "check")
    /\ LET f == Top(t)
           modelName == ModelKey(f.coll, TypeName(f.model))
       IN IF Exists(modelName)
          THEN /\ stack' = SetTop(t, [f EXCEPT !.pc = "done", !.modelName = modelName,
                                               !.err = Err("already_registered", modelName, "", "")])
          ELSE /\ stack' = SetTop(t, [f EXCEPT !.pc = "insert", !.modelName = modelName])
    /\ UNCHANGED <<regvars, lockvars, calls, trace, last, ormvars>>

\* the Go runtime found two goroutines in the map at once ("fatal error:
\* concurrent map writes"): the program is gone
Fatal ==
    /\ stack' = [u \in Threads |-> <<>>]
    /\ calls' = [u \in Threads |-> IF u = "t1" THEN MaxCalls ELSE MaxWriterCalls]
    /\ last' = [u \in Threads |->
                    IF Idle(u) THEN last[u]
                    ELSE [NoLast EXCEPT !.op = stack[u][Len(stack[u])].op,
                                        !.err = Err("fatal", "", "", "")]]

\* RegisterModel from the tag map on: the entry is written, the instance
\* is made and given its collection and model name.  With another goroutine
\* in the registry the unsynchronised write goes through or is fatal.
RegisterModelInsert(t) ==
    /\ Running(t, "RegisterModel", "insert")
    /\ LET f == Top(t)
       IN \/ /\ modelRegistry' = MapSet(modelRegistry, f.modelName,
                                         ModelInfoOf(f.model, f.coll))
             /\ bm' = [bm EXCEPT ![f.recv] =
                            [BaseModel0 EXCEPT !.CollectionName = f.coll,
                                               !.ModelName = TypeName(f.model)]]
             /\ stack' = SetTop(t, [f EXCEPT !.pc = "done", !.err = Nil])
             /\ UNCHANGED <<calls, last>>
          \/ /\ OthersInRegistry(t) # {}
             /\ Fatal
             /\ UNCHANGED <<modelRegistry, bm>>
    /\ UNCHANGED <<regvars, lockvars, trace, store, writes, nextID, clock>>

RegisterModelReturn(t) ==
    /\ Running(t, "RegisterModel", "done")
    /\ ReturnOnly(t, Top(t).err)
    /\ UNCHANGED trace

\* GetModelInfo: the entry of the key, or the not-registered error
GetModelInfo(t) ==
    /\ Running(t, "GetModelInfo", "begin")
    /\ LET f == Top(t)
       IN IF f.modelName \in DOMAIN modelRegistry
          THEN stack' = SetTop(t, [f EXCEPT !.pc = "done", !.err = Nil,
                                            !.info = modelRegistry[f.modelName]])
          ELSE stack' = SetTop(t, [f EXCEPT !.pc = "done", !.info = NoInfo,
                                            !.err = Err("not_registered", f.modelName, "", "")])
    /\ UNCHANGED <<regvars, lockvars, calls, trace, last, ormvars>>

GetModelInfoReturn(t) ==
    /\ Running(t, "GetModelInfo", "done")
    /\ ReturnOnly(t, Top(t).err)
    /\ UNCHANGED trace

ModelRegistryStep(t) ==
    \/ RegisterModelCheck(t)
    \/ RegisterModelInsert(t)
    \/ RegisterModelReturn(t)
    \/ GetModelInfo(t)
    \/ GetModelInfoReturn(t)

\* ------------------------------------- example: main's pagination loop
\* "for { var tasksPage []Task; nextPageToken, err := taskModel.List(...)":
\* every page is read into a fresh slice, the token of one call is the
\* startAfter of the next
MainFrame(recv, entries, limit, sortField, sortOrder) ==
    [Frame0 EXCEPT !.op = "main", !.pc = "list", !.recv = recv, !.filters = entries,
                   !.limit = limit, !.startAfter = "", !.sortField = sortField,
                   !.sortOrder = sortOrder, !.page = 1, !.all = <<>>]
CallMain(t, recv, entries, limit, sortField, sortOrder) ==
    Start(t, MainFrame(recv, entries, limit, sortField, sortOrder))

MainList(t) ==
    /\ Running(t, "main", "list")
    /\ Top(t).page <= MaxPages
    /\ LET f == Top(t)
       IN stack' = Push(t, [f EXCEPT !.pc = "listed"],
                        ListFrame(f.recv, f.filters, f.limit, f.startAfter,
                                  f.sortField, f.sortOrder, <<>>))
    /\ UNCHANGED <<regvars, lockvars, calls, trace, last, ormvars>>

\* List returned (nextPageToken, err) to main: log.Fatalf on an error;
\* otherwise allTasks takes the page, and the loop ends on an empty token
MainCollect(t) ==
    /\ Running(t, "List", "done")
    /\ Len(stack[t]) = 2
    /\ stack[t][1].op = "main"
    /\ LET l == Top(t)
           f == stack[t][1]
           g == IF l.err # Nil
                THEN [f EXCEPT !.pc = "done", !.err = l.err]
                ELSE [f EXCEPT !.all = @ \o ResultsSlice(l),
                               !.count = Len(ResultsSlice(l)),
                               !.token = l.token,
                               !.startAfter = IF l.token = "" THEN @ ELSE l.token,
                               !.page = IF l.token = "" THEN @ ELSE @ + 1,
                               !.pc = IF l.token = "" THEN "done" ELSE "list"]
       IN stack' = [stack EXCEPT ![t] = <<g>>]
    /\ UNCHANGED <<regvars, lockvars, calls, trace, last, ormvars>>

MainReturn(t) ==
    /\ Running(t, "main", "done")
    /\ ReturnOnly(t, Top(t).err)
    /\ UNCHANGED trace

\* --------------------------------------------------------- registry steps
RunStep(t) ==
    \/ RLock(t)
    \/ RunHooksCheck(t)
    \/ Invoke(t)
    \/ RunHooksReturn(t)

RegistryStep(t) ==
    \/ Lock(t)
    \/ RegisterHook(t)
    \/ EnableAll(t)
    \/ EnableType(t)
    \/ EnableScope(t)
    \/ RunStep(t)

InitRegistry ==
    /\ hooks = [c \in Collections |-> [ht \in HookType |-> <<>>]]
    /\ enabledAll = TRUE
    /\ enabledTypes = EmptyMap
    /\ enabledScopes = EmptyMap
    /\ rheld = [t \in Threads |-> 0]
    /\ wmutex = NoThread

InitThreads ==
    /\ stack = [t \in Threads |-> <<>>]
    /\ calls = [t \in Threads |-> 0]
    /\ trace = [t \in Threads |-> <<>>]
    /\ last = [t \in Threads |-> NoLast]

\* nothing registered, no instance configured, an empty store
InitOrmEmpty ==
    /\ modelRegistry = EmptyMap
    /\ bm = [x \in Instances |-> BaseModel0]
    /\ store = EmptyMap
    /\ writes = <<>>
    /\ nextID = 0
    /\ clock = 0

Init == InitRegistry /\ InitThreads /\ InitOrmEmpty

\* ---------------------------------------- one goroutine using the registry
HookColls == {"tasks", "users"}
HookEvents == {PreCreate, PostCreate}

NextHooks ==
    \/ \E c \in HookColls, ht \in HookEvents, fn \in PlainFns :
            CallRegisterHook("t1", c, ht, fn)
    \/ \E on \in BOOLEAN : CallEnableAll("t1", on)
    \/ \E ht \in HookEvents, on \in BOOLEAN : CallEnableType("t1", ht, on)
    \/ \E c \in HookColls, ht \in HookEvents, on \in BOOLEAN :
            CallEnableScope("t1", c, ht, on)
    \/ \E c \in HookColls, ht \in HookEvents : CallRunHooks("t1", c, ht)
    \/ RegistryStep("t1")

SpecHooks == Init /\ [][NextHooks]_vars

\* ------------------------- two goroutines: t1 runs hooks, t2 changes switches
\* t1 registers hook functions (those of the run scope may call back into
\* the registry) and runs the hooks of the run scope; t2 registers hooks and
\* sets switches at any moment.
RunColl == "tasks"
RunType == PreCreate
ConcFns == {"h1", "bad", "hAll", "hScope", "hReg", "hRun"}

ThreadStep(t) ==
    \/ RegistryStep(t)
    \/ InvokeReentrant(t)
    \/ HookReturns(t)

NextConc ==
    \/ \E fn \in ConcFns : CallRegisterHook("t1", RunColl, RunType, fn)
    \/ \E fn \in {"h1", "bad"} : CallRegisterHook("t1", NestedColl, NestedType, fn)
    \/ CallRunHooks("t1", RunColl, RunType)
    \/ CallRegisterHook("t2", RunColl, RunType, "h2")
    \/ \E on \in BOOLEAN : CallEnableAll("t2", on)
    \/ \E on \in BOOLEAN : CallEnableType("t2", RunType, on)
    \/ \E on \in BOOLEAN : CallEnableScope("t2", RunColl, RunType, on)
    \/ \E t \in Threads : ThreadStep(t)

SpecConc == Init /\ [][NextConc]_vars

\* ------------- one goroutine whose hook functions call back into the registry
NextReentry ==
    \/ \E fn \in ConcFns : CallRegisterHook("t1", RunColl, RunType, fn)
    \/ \E on \in BOOLEAN : CallEnableAll("t1", on)
    \/ \E on \in BOOLEAN : CallEnableType("t1", RunType, on)
    \/ \E on \in BOOLEAN : CallEnableScope("t1", RunColl, RunType, on)
    \/ CallRunHooks("t1", RunColl, RunType)
    \/ ThreadStep("t1")

SpecReentry == Init /\ [][NextReentry]_vars

\* ------------------------------- one goroutine registering models
RegisterColls == {"tasks", "users"}

NextRegister ==
    \/ \E ty \in ModelTypes, c \in RegisterColls, recv \in {"task", "blank"} :
            CallRegisterModel("t1", ty, c, recv)
    \/ \E ty \in ModelTypes, c \in RegisterColls :
            CallGetModelInfo("t1", ModelKey(c, TypeName(ty)))
    \/ ModelRegistryStep("t1")

SpecRegister == Init /\ [][NextRegister]_vars

\* --------- two goroutines registering a model called Task under "tasks"
RaceTypes == {"main.Task", "other.Task"}

NextRegisterConc ==
    \/ \E ty \in RaceTypes : CallRegisterModel("t1", ty, "tasks", "task")
    \/ \E ty \in RaceTypes : CallRegisterModel("t2", ty, "tasks", "blank")
    \/ CallGetModelInfo("t1", ModelKey("tasks", "Task"))
    \/ \E t \in Threads : ModelRegistryStep(t)

SpecRegisterConc == Init /\ [][NextRegisterConc]_vars

\* ----------------------- one goroutine mutating documents of "tasks"
\* The application has registered the Task model and one hook function for
\* every event of "tasks"; each may fail or not.  The store holds one task.
Doc0 ==
    [id |-> "d0", created_at |-> "T0", updated_at |-> "T0", deleted |-> "false",
     title |-> "t", description |-> "d"]

InitOrm ==
    /\ hooks = [c \in Collections |->
                    [ht \in HookType |-> IF c = "tasks" THEN <<"hx">> ELSE <<>>]]
    /\ enabledAll = TRUE
    /\ enabledTypes = [ht \in HookType |-> TRUE]
    /\ enabledScopes = [c \in {"tasks"} |-> [ht \in HookType |-> TRUE]]
    /\ rheld = [t \in Threads |-> 0]
    /\ wmutex = NoThread
    /\ InitThreads
    /\ modelRegistry = [k \in {ModelKey("tasks", "Task")} |-> TaskInfo]
    /\ bm = [x \in Instances |->
                CASE x = "task" -> [BaseModel0 EXCEPT !.CollectionName = "tasks",
                                                      !.ModelName = "Task"]
                  [] x = "stray" -> [BaseModel0 EXCEPT !.CollectionName = "tasks",
                                                       !.ModelName = "Other"]
                  [] OTHER -> BaseModel0]
    /\ store = [k \in {DocKey("tasks", "d0")} |-> Doc0]
    /\ writes = <<>>
    /\ nextID = 0
    /\ clock = 0

Record(kind, title) == [NoData EXCEPT !.kind = kind, !.Title = title, !.Description = "d"]
CreateInputs ==
    {Record("ptr", "a"), Record("ptr", ""), Record("struct", "a"), Record("other", "a"),
     [Record("ptr", "a") EXCEPT !.Description = ""]}
UpdateInputs ==
    {[title |-> "b"], [title |-> ""], [ghost |-> "x"], [updated_at |-> "mine"]}
DocIds == {"d0", "nope"}

NextOrm ==
    \/ CallEnableAll("t1", FALSE)
    \/ \E ht \in {PreCreate, PreUpdate, PreDelete} : CallEnableType("t1", ht, FALSE)
    \/ \E ht \in {PostCreate, PostUpdate, PostDelete} :
            CallEnableScope("t1", "tasks", ht, FALSE)
    \/ \E recv \in {"task", "blank"}, data \in CreateInputs : CallCreate("t1", recv, data)
    \/ \E recv \in Instances, id \in DocIds, updates \in UpdateInputs :
            CallUpdate("t1", recv, id, updates)
    \/ \E recv \in Instances, id \in DocIds : CallDelete("t1", recv, id)
    \/ Lock("t1")
    \/ EnableAll("t1")
    \/ EnableType("t1")
    \/ EnableScope("t1")
    \/ RunStep("t1")
    \/ OrmStep("t1")

SpecOrm == InitOrm /\ [][NextOrm]_vars

\* ------------- two goroutines creating tasks through one model instance
\* The Task model is registered, no hook is, the store is empty.
InitCreateConc ==
    /\ InitRegistry
    /\ InitThreads
    /\ modelRegistry = [k \in {ModelKey("tasks", "Task")} |-> TaskInfo]
    /\ bm = [x \in Instances |->
                IF x = "task" THEN [BaseModel0 EXCEPT !.CollectionName = "tasks",
                                                      !.ModelName = "Task"]
                ELSE BaseModel0]
    /\ store = EmptyMap
    /\ writes = <<>>
    /\ nextID = 0
    /\ clock = 0

NextCreateConc ==
    \/ \E title \in {"a", "b"} : CallCreate("t1", "task", Record("ptr", title))
    \/ CallCreate("t2", "task", Record("ptr", "t"))
    \/ \E t \in Threads :
            \/ CreateBegin(t)
            \/ CreateStore(t)
            \/ CreateEnd(t)
            \/ RLock(t)
            \/ RunHooksCheck(t)
            \/ RunHooksReturn(t)

SpecCreateConc == InitCreateConc /\ [][NextCreateConc]_vars

\* ------------- one goroutine updating and deleting, with a pre_update hook
\* The application registered the Task model and one pre_update hook on
\* "tasks": a function that edits the update map it is handed, or h1, which
\* leaves it alone.
InitEdit ==
    /\ \E fn \in EditFns \cup {"h1"} :
            hooks = [c \in Collections |->
                        [ht \in HookType |->
                            IF c = "tasks" /\ ht = PreUpdate THEN <<fn>> ELSE <<>>]]
    /\ enabledAll = TRUE
    /\ enabledTypes = [ht \in HookType |-> TRUE]
    /\ enabledScopes = [c \in {"tasks"} |-> [ht \in HookType |-> TRUE]]
    /\ rheld = [t \in Threads |-> 0]
    /\ wmutex = NoThread
    /\ InitThreads
    /\ modelRegistry = [k \in {ModelKey("tasks", "Task")} |-> TaskInfo]
    /\ bm = [x \in Instances |->
                IF x = "task" THEN [BaseModel0 EXCEPT !.CollectionName = "tasks",
                                                      !.ModelName = "Task"]
                ELSE BaseModel0]
    /\ store = [k \in {DocKey("tasks", "d0")} |-> Doc0]
    /\ writes = <<>>
    /\ nextID = 0
    /\ clock = 0

NextEdit ==
    \/ \E id \in DocIds, updates \in UpdateInputs : CallUpdate("t1", "task", id, updates)
    \/ \E id \in DocIds : CallDelete("t1", "task", id)
    \/ UpdateBegin("t1")
    \/ UpdateStore("t1")
    \/ UpdateEnd("t1")
    \/ DeleteBegin("t1")
    \/ DeleteUpdate("t1")
    \/ DeleteAfterUpdate("t1")
    \/ DeleteEnd("t1")
    \/ RunStep("t1")
    \/ InvokeEditor("t1")

SpecEdit == InitEdit /\ [][NextEdit]_vars

\* ------------------------------- validateUpdateFields on its own
\* The update maps of at most MaxKeys keys: tags of the Task model, a key the
\* model does not have, and protected keys; the values are a string, the
\* empty string, nil and a number.
ValidateKeys == {"title", "done", "ghost", "updated_at", "deleted"}
UpdateValues == {"b", "", "<nil>", "#0"}
UpdateMaps ==
    UNION {[K -> UpdateValues] : K \in {K \in SUBSET ValidateKeys : Cardinality(K) <= MaxKeys}}

ValidateFrame(recv, updates) ==
    [Frame0 EXCEPT !.op = "validateUpdateFields", !.pc = "begin", !.recv = recv,
                   !.updates = updates]
CallValidate(t, recv, updates) == Start(t, ValidateFrame(recv, updates))

\* validateUpdateFields(updates, baseModel) runs; the range visits the keys
\* in some order
ValidateRun(t) ==
    /\ Running(t, "validateUpdateFields", "begin")
    /\ \E err \in validateUpdateFields(Top(t).updates, bm[Top(t).recv]) :
            stack' = SetTop(t, [Top(t) EXCEPT !.pc = "done", !.err = err])
    /\ UNCHANGED <<regvars, lockvars, calls, trace, last, ormvars>>

ValidateReturn(t) ==
    /\ Running(t, "validateUpdateFields", "done")
    /\ ReturnOnly(t, Top(t).err)
    /\ UNCHANGED trace

NextValidate ==
    \/ \E recv \in Instances, updates \in UpdateMaps : CallValidate("t1", recv, updates)
    \/ ValidateRun("t1")
    \/ ValidateReturn("t1")

SpecValidate == InitOrm /\ [][NextValidate]_vars

\* --------------------------------------- parseFilter and the filter loop
\* keys: a, gt, a_gt, a__gt, a__gte, a__lt, a__lte, a__gtt, a__eq, a__,
\* __gt, a__a__gt, a___gt
FilterKeys ==
    {<<"a">>, <<"g", "t">>, <<"a", "_", "g", "t">>,
     <<"a", "_", "_", "g", "t">>, <<"a", "_", "_", "g", "t", "e">>,
     <<"a", "_", "_", "l", "t">>, <<"a", "_", "_", "l", "t", "e">>,
     <<"a", "_", "_", "g", "t", "t">>, <<"a", "_", "_", "e", "q">>,
     <<"a", "_", "_">>, <<"_", "_", "g", "t">>,
     <<"a", "_", "_", "a", "_", "_", "g", "t">>, <<"a", "_", "_", "_", "g", "t">>}

\* strings: 2025-04-01, 2024-02-29, 2023-02-29, 2025-13-01, 2025-4-1,
\* 2025-04-01x, act and the empty string
FilterStrings ==
    {<<"2", "0", "2", "5", "-", "0", "4", "-", "0", "1">>,
     <<"2", "0", "2", "4", "-", "0", "2", "-", "2", "9">>,
     <<"2", "0", "2", "3", "-", "0", "2", "-", "2", "9">>,
     <<"2", "0", "2", "5", "-", "1", "3", "-", "0", "1">>,
     <<"2", "0", "2", "5", "-", "4", "-", "1">>,
     <<"2", "0", "2", "5", "-", "0", "4", "-", "0", "1", "x">>,
     <<"a", "c", "t">>, <<>>}

ListValue == [NilValue EXCEPT !.kind = "list", !.s = <<"x", "y">>]
IntValue == [NilValue EXCEPT !.kind = "int", !.y = 5]
FilterValues == {StringValue(s) : s \in FilterStrings} \cup {ListValue, IntValue, NilValue}

ParseFilterFrame(key, value) ==
    [Frame0 EXCEPT !.op = "parseFilter", !.pc = "begin", !.key = key, !.val = value]
CallParseFilter(t, key, value) == Start(t, ParseFilterFrame(key, value))

ParseFilterRun(t) ==
    /\ Running(t, "parseFilter", "begin")
    /\ stack' = SetTop(t, [Top(t) EXCEPT !.pc = "done",
                                          !.out = parseFilter(Top(t).key, Top(t).val)])
    /\ UNCHANGED <<regvars, lockvars, calls, trace, last, ormvars>>

ParseFilterReturn(t) ==
    /\ Running(t, "parseFilter", "done")
    /\ ReturnOnly(t, Top(t).out.err)
    /\ UNCHANGED trace

\* filter maps of at most MaxFilters entries, written in some order
EntryKeys == {<<"a">>, <<"a", "_", "_", "g", "t">>, <<"b", "_", "_", "l", "t">>}
EntryValues ==
    {StringValue(<<"2", "0", "2", "5", "-", "0", "4", "-", "0", "1">>),
     StringValue(<<"a", "c", "t">>), IntValue}
Entries == [key : EntryKeys, val : EntryValues]
FilterLists ==
    {fl \in UNION {[1..n -> Entries] : n \in 0..MaxFilters} :
        \A i, j \in DOMAIN fl : i # j => fl[i].key # fl[j].key}

ApplyFiltersFrame(entries) ==
    [Frame0 EXCEPT !.op = "applyOperatorFilters", !.pc = "begin", !.filters = entries,
                   !.query = BaseQuery]
CallApplyFilters(t, entries) == Start(t, ApplyFiltersFrame(entries))

ApplyFiltersRun(t) ==
    /\ Running(t, "applyOperatorFilters", "begin")
    /\ \E r \in applyOperatorFilters(Top(t).query, FilterMap(Top(t).filters)) :
            stack' = SetTop(t, [Top(t) EXCEPT !.pc = "done", !.query = r.query,
                                              !.out = [NoOut EXCEPT !.err = r.err,
                                                                    !.errKey = r.errKey]])
    /\ UNCHANGED <<regvars, lockvars, calls, trace, last, ormvars>>

ApplyFiltersReturn(t) ==
    /\ Running(t, "applyOperatorFilters", "done")
    /\ ReturnOnly(t, Top(t).out.err)
    /\ UNCHANGED trace

NextFilter ==
    \/ \E key \in FilterKeys, value \in FilterValues : CallParseFilter("t1", key, value)
    \/ ParseFilterRun("t1")
    \/ ParseFilterReturn("t1")
    \/ \E entries \in FilterLists : CallApplyFilters("t1", entries)
    \/ ApplyFiltersRun("t1")
    \/ ApplyFiltersReturn("t1")

SpecFilter == InitOrm /\ [][NextFilter]_vars

\* ----------------------------------- one goroutine listing "tasks"
\* The store holds four tasks, one of them soft-deleted; nothing writes.
ListDoc(id, title, deleted, created) ==
    [id |-> id, created_at |-> created, updated_at |-> created, deleted |-> deleted,
     title |-> title, description |-> "d"]

InitList ==
    /\ InitRegistry
    /\ InitThreads
    /\ modelRegistry = [k \in {ModelKey("tasks", "Task")} |-> TaskInfo]
    /\ bm = [x \in Instances |->
                IF x = "task" THEN [BaseModel0 EXCEPT !.CollectionName = "tasks",
                                                      !.ModelName = "Task"]
                ELSE BaseModel0]
    /\ store = [k \in {DocKey("tasks", id) : id \in {"d0", "d1", "d2", "d3"}} |->
                    CASE k[2] = "d0" -> ListDoc("d0", "b", "false", "T0")
                      [] k[2] = "d1" -> ListDoc("d1", "a", "true", "T1")
                      [] k[2] = "d2" -> ListDoc("d2", "a", "false", "T2")
                      [] k[2] = "d3" -> ListDoc("d3", "a", "false", "T3")]
    /\ writes = <<>>
    /\ nextID = 0
    /\ clock = 0

\* no filter, a filter parseFilter rejects (a__gt: act), and title: a
ListFilters ==
    {<<>>,
     <<[key |-> <<"a", "_", "_", "g", "t">>, val |-> StringValue(<<"a", "c", "t">>)]>>,
     <<[key |-> TitleField, val |-> StringValue(<<"a">>)]>>}
Limits == (-1)..MaxLimit
Tokens == {"", "d0", "d1", "nope"}
\* the caller's slice: empty, or holding one item of an earlier call
Slices == {<<>>, <<"d0">>}
SortFields == {"", "title"}
SortOrders == {"", "asc", "desc", "ASC"}

NextList ==
    \/ \E recv \in {"task", "blank"}, entries \in ListFilters, limit \in Limits,
          startAfter \in Tokens, sortField \in SortFields, sortOrder \in SortOrders,
          results \in Slices :
            CallList("t1", recv, entries, limit, startAfter, sortField, sortOrder, results)
    \/ ListStep("t1")

SpecList == InitList /\ [][NextList]_vars

\* ------------------------ one goroutine paging through "tasks" as main does
PageLimits == 1..MaxLimit
PageOrders == {"asc", "desc"}

NextPage ==
    \/ \E entries \in ListFilters, limit \in PageLimits, sortField \in SortFields,
          sortOrder \in PageOrders :
            CallMain("t1", "task", entries, limit, sortField, sortOrder)
    \/ MainList("t1")
    \/ ListBegin("t1")
    \/ ListCursor("t1")
    \/ ListRun("t1")
    \/ ListNext("t1")
    \/ ListFinish("t1")
    \/ MainCollect("t1")
    \/ MainReturn("t1")

SpecPage == InitList /\ [][NextPage]_vars

\* ------------- one goroutine deleting, restoring and reading "tasks"
\* The store of InitList; one hook function per event of "tasks", each of
\* which may fail.
InitRead ==
    /\ hooks = [c \in Collections |->
                    [ht \in HookType |-> IF c = "tasks" THEN <<"hx">> ELSE <<>>]]
    /\ enabledAll = TRUE
    /\ enabledTypes = [ht \in HookType |-> TRUE]
    /\ enabledScopes = [c \in {"tasks"} |-> [ht \in HookType |-> TRUE]]
    /\ rheld = [t \in Threads |-> 0]
    /\ wmutex = NoThread
    /\ InitThreads
    /\ modelRegistry = [k \in {ModelKey("tasks", "Task")} |-> TaskInfo]
    /\ bm = [x \in Instances |->
                IF x = "task" THEN [BaseModel0 EXCEPT !.CollectionName = "tasks",
                                                      !.ModelName = "Task"]
                ELSE BaseModel0]
    /\ store = [k \in {DocKey("tasks", id) : id \in {"d0", "d1", "d2", "d3"}} |->
                    CASE k[2] = "d0" -> ListDoc("d0", "b", "false", "T0")
                      [] k[2] = "d1" -> ListDoc("d1", "a", "true", "T1")
                      [] k[2] = "d2" -> ListDoc("d2", "a", "false", "T2")
                      [] k[2] = "d3" -> ListDoc("d3", "a", "false", "T3")]
    /\ writes = <<>>
    /\ nextID = 0
    /\ clock = 0

ReadIds == {"d1", "d3", "nope"}
\* no filter, title: a, deleted: true, and a filter parseFilter rejects
ReadFilters ==
    {<<>>,
     <<[key |-> TitleField, val |-> StringValue(<<"a">>)]>>,
     <<[key |-> DeletedField, val |-> BoolTrue]>>,
     <<[key |-> <<"a", "_", "_", "g", "t">>, val |-> StringValue(<<"a", "c", "t">>)]>>}
ReadProperties ==
    {[property |-> TitleField, val |-> StringValue(<<"a">>)],
     [property |-> DeletedField, val |-> BoolTrue]}

NextRead ==
    \/ \E id \in ReadIds : CallDelete("t1", "task", id)
    \/ \E id \in ReadIds : CallUpdate("t1", "task", id, [deleted |-> "false"])
    \/ \E recv \in {"task", "blank"}, id \in ReadIds : CallGet("t1", recv, id)
    \/ \E pv \in ReadProperties : CallFindOneBy("t1", "task", pv.property, pv.val)
    \/ \E entries \in ReadFilters : CallFindOne("t1", "task", entries)
    \/ CallLast("t1", "task")
    \/ \E entries \in ReadFilters : CallCount("t1", "task", entries)
    \/ \E entries \in ReadFilters : CallList("t1", "task", entries, 0, "", "", "", <<>>)
    \/ UpdateBegin("t1")
    \/ UpdateStore("t1")
    \/ UpdateEnd("t1")
    \/ DeleteBegin("t1")
    \/ DeleteUpdate("t1")
    \/ DeleteAfterUpdate("t1")
    \/ DeleteEnd("t1")
    \/ RunStep("t1")
    \/ ListBegin("t1")
    \/ ListRun("t1")
    \/ ListNext("t1")
    \/ ListFinish("t1")
    \/ ListReturn("t1")
    \/ Get("t1")
    \/ FindOneBy("t1")
    \/ FindOne("t1")
    \/ Last("t1")
    \/ Count("t1")
    \/ ReadReturn("t1")

SpecRead == InitRead /\ [][NextRead]_vars

\* ================================================================ claims
AllThreeOn(s) == s.g /\ s.e = "on" /\ s.s = "on"
FinishedRun(t) == Idle(t) /\ last[t].op = "RunHooks"

IsHookEvent(e) == e[1] = "hook"
HookEventsOf(tr) == SelectSeq(tr, IsHookEvent)

IsPrefix(p, q) == Len(p) <= Len(q) /\ \A k \in 1..Len(p) : p[k] = q[k]

\* the position of the first function of fns that fails, 0 if none does
FirstFail(fns) ==
    IF \E k \in 1..Len(fns) : Kind(fns[k]) = "fail"
    THEN CHOOSE k \in 1..Len(fns) :
            /\ Kind(fns[k]) = "fail"
            /\ \A j \in 1..(k - 1) : Kind(fns[j]) # "fail"
    ELSE 0

\* C1: a RunHooks call invokes a hook function if and only if the master
\* switch, the event's switch and the (collection, event) switch were all on
\* when it was called (and a hook is registered for the scope); with any of
\* them off or unset it returns nil and has invoked nothing, and what it
\* invokes are hooks registered for that scope.
C1_FiresIffAllThreeOn ==
    \A t \in Threads :
        FinishedRun(t) =>
            LET r == last[t] IN
            /\ (r.inv # <<>>) <=> (AllThreeOn(r.snap) /\ r.snap.regs # <<>>)
            /\ ~AllThreeOn(r.snap) => (r.err = Nil /\ HookEventsOf(trace[t]) = <<>>)
            /\ \A k \in 1..Len(r.inv) : r.inv[k] = r.snap.regs[k]

\* a hook is registered and its scope alone was switched off: nothing fired
C1_Witness ==
    \E t \in Threads :
        /\ FinishedRun(t)
        /\ last[t].snap.regs # <<>>
        /\ last[t].snap.g /\ last[t].snap.e = "on" /\ last[t].snap.s = "off"
        /\ last[t].inv = <<>> /\ last[t].err = Nil

\* C2: with the three switches on, one RunHooks call invokes the hooks of
\* the scope in registration order, each registration once, up to and
\* including the first that fails; a failure is returned wrapped with the
\* event and the collection, and no later hook is invoked; without a failure
\* every hook was invoked once and the call returns nil.
C2_InOrderStopAtFirstFailure ==
    \A t \in Threads :
        (FinishedRun(t) /\ AllThreeOn(last[t].snap)) =>
            LET r == last[t]
                k == FirstFail(r.snap.regs)
                n == IF k = 0 THEN Len(r.snap.regs) ELSE k
            IN /\ r.inv = SubSeq(r.snap.regs, 1, n)
               /\ HookEventsOf(trace[t]) =
                    [j \in 1..n |-> <<"hook", r.coll, r.ht, r.snap.regs[j],
                                      IF j = k THEN "fail" ELSE "ok">>]
               /\ r.err = IF k = 0 THEN Nil
                          ELSE Err("hook", r.ht, r.coll, r.snap.regs[k])

\* two hooks, the first fails: the second was not invoked
C2_Witness ==
    \E t \in Threads :
        /\ FinishedRun(t) /\ AllThreeOn(last[t].snap)
        /\ Len(last[t].snap.regs) = 2
        /\ Kind(last[t].snap.regs[1]) = "fail"
        /\ last[t].inv = <<last[t].snap.regs[1]>>
        /\ last[t].err # Nil

\* C5: RegisterHook leaves a scope, and an event, that was explicitly
\* switched off before the registration switched off.
C5_RegisterKeepsExplicitOff ==
    \A t \in Threads :
        (Idle(t) /\ last[t].op = "RegisterHook") =>
            /\ (last[t].snap.s = "off" => ScopeSetting(last[t].coll, last[t].ht) = "off")
            /\ (last[t].snap.e = "off" => TypeSetting(last[t].ht) = "off")

\* the frames of one thread that are RunHooks calls holding the read lock
ReadingFrames(t) ==
    {k \in 1..Len(stack[t]) : stack[t][k].op = "RunHooks" /\ stack[t][k].pc # "rlock"}

\* C8: a RunHooks call in flight is not affected by another thread's
\* RegisterHook or Enable* call: from the moment it holds the read lock the
\* switches and the hooks of its scope stay what they were when it read them
\* (every change that returned before is in them, none is made under it), the
\* slice it dispatches is the hooks registered then if the three switches
\* were on then and nothing otherwise, and what it has invoked is a prefix
\* of that slice.
C8_InFlightRunUnaffected ==
    \A t \in Threads : \A k \in ReadingFrames(t) :
        LET f == stack[t][k] IN
        /\ f.snap = SnapOf(f.coll, f.ht)
        /\ f.pc # "check" =>
              /\ f.fns = IF AllThreeOn(f.snap) THEN f.snap.regs ELSE <<>>
              /\ IsPrefix(f.inv, f.fns)

\* t1 is dispatching hooks while t2 has called a setter and waits
C8_Witness ==
    /\ ~Idle("t1") /\ ~Idle("t2")
    /\ stack["t1"][1].op = "RunHooks" /\ stack["t1"][1].pc = "loop"
    /\ stack["t1"][1].inv # <<>>
    /\ Top("t2").op \in WriterOps /\ Top("t2").pc = "wait"

\* a hook function has called a setter or RegisterHook of the registry
InHookSetter(t) ==
    /\ Len(stack[t]) >= 2
    /\ Top(t).op \in WriterOps
    /\ stack[t][Len(stack[t]) - 1].op = "RunHooks"

\* C6: a hook function that calls RegisterHook or an Enable* setter from
\* inside RunHooks does not deadlock: while such a call is pending, some
\* step can be taken.
C6_ReentrantSetterNoDeadlock ==
    \A t \in Threads : InHookSetter(t) => ENABLED NextReentry

\* a hook function has started a nested RunHooks
InNestedRun(t) ==
    /\ Len(stack[t]) >= 2
    /\ Top(t).op = "RunHooks"
    /\ stack[t][Len(stack[t]) - 1].op = "RunHooks"

\* C7: a hook function that runs a nested RunHooks always completes, also
\* with a concurrent writer: while the nested call is pending, some step can
\* be taken.
C7_NestedRunNoDeadlock ==
    \A t \in Threads : InNestedRun(t) => ENABLED NextConc

\* ------------------------------------------ what a mutation's trace holds
PreEvents == {PreCreate, PreUpdate, PreDelete}
PostEvents == {PostCreate, PostUpdate, PostDelete}
MutationOps == {"Create", "Update", "Delete"}

\* the mutation thread t is making, or has just finished
OpOf(t) == IF Idle(t) THEN last[t].op ELSE stack[t][1].op
FinishedOp(t) == Idle(t) /\ last[t].op \in MutationOps

\* the pre-event hooks a mutation runs before it writes
PreOf(op) ==
    CASE op = "Create" -> {PreCreate}
      [] op = "Update" -> {PreUpdate}
      [] op = "Delete" -> {PreDelete, PreUpdate}
      [] OTHER -> {}

RunIdx(tr, hts) == {i \in 1..Len(tr) : tr[i][1] = "run" /\ tr[i][3] \in hts}
FailIdx(tr, hts) ==
    {i \in 1..Len(tr) : tr[i][1] = "hook" /\ tr[i][3] \in hts /\ tr[i][5] = "fail"}
ValIdx(tr, op, out) ==
    {i \in 1..Len(tr) : tr[i][1] = "validate" /\ tr[i][2] = op /\ tr[i][3] = out}
StoreIdx(tr, kinds) == {i \in 1..Len(tr) : tr[i][1] = "store" /\ tr[i][2] \in kinds}
AllBefore(A, B) == \A b \in B : \E a \in A : a < b

\* C3: when a pre-event hook of a Create, Update or Delete fails, the store
\* receives no write from that operation, and the operation returns an error.
C3_PreHookFailureNoWrite ==
    \A t \in Threads :
        (OpOf(t) \in MutationOps /\ FailIdx(trace[t], PreOf(OpOf(t))) # {}) =>
            /\ StoreIdx(trace[t], {"Set", "Update"}) = {}
            /\ FinishedOp(t) => last[t].err # Nil

\* a Delete whose pre_delete hook failed has returned
C3_Witness ==
    \E t \in Threads :
        /\ FinishedOp(t) /\ last[t].op = "Delete"
        /\ FailIdx(trace[t], {PreDelete}) # {}
        /\ last[t].err # Nil
        /\ writes = <<>>

\* C4: a failure of a post-event hook is not returned by Create, Update or
\* Delete: the result is the result of the store call, and the document
\* the store wrote is still what the store holds.
C4_PostHookFailureDropped ==
    \A t \in Threads :
        (FinishedOp(t) /\ FailIdx(trace[t], PostEvents) # {}) =>
            /\ Cardinality(StoreIdx(trace[t], {"Set", "Update"})) = 1
            /\ writes # <<>>
            /\ LET w == writes[Len(writes)] IN
               /\ last[t].err = StoreResult(w.ok)
               /\ w.ok => (/\ DocKey(w.coll, w.id) \in DOMAIN store
                           /\ store[DocKey(w.coll, w.id)] = w.after)

\* a Create whose post_create hook failed after the document was stored
C4_Witness ==
    \E t \in Threads :
        /\ FinishedOp(t) /\ last[t].op = "Create"
        /\ FailIdx(trace[t], {PostCreate}) # {}
        /\ writes # <<>> /\ writes[Len(writes)].ok
        /\ last[t].err = Nil

\* the order the claim C9 states: pre-event hooks, validation, store, post
OrderHooksFirst(tr, op, pre, post, kind) ==
    /\ AllBefore(RunIdx(tr, {pre}), ValIdx(tr, op, "ok") \cup ValIdx(tr, op, "fail"))
    /\ AllBefore(ValIdx(tr, op, "ok"), StoreIdx(tr, {kind}))
    /\ AllBefore(RunIdx(tr, {pre}), StoreIdx(tr, {kind}))
    /\ AllBefore(StoreIdx(tr, {kind}), RunIdx(tr, {post}))

\* the order of the code: validation, pre-event hooks, store, post
OrderValidationFirst(tr, op, pre, post, kind) ==
    /\ AllBefore(ValIdx(tr, op, "ok"), RunIdx(tr, {pre}))
    /\ ValIdx(tr, op, "fail") # {} => RunIdx(tr, {pre}) = {}
    /\ AllBefore(RunIdx(tr, {pre}), StoreIdx(tr, {kind}))
    /\ StoreIdx(tr, {kind}) # {} => FailIdx(tr, {pre}) = {}
    /\ AllBefore(StoreIdx(tr, {kind}), RunIdx(tr, {post}))

C10_PostAlwaysAttempted ==
    \A t \in Threads :
        /\ (FinishedOp(t) /\ last[t].op = "Create" /\ RunIdx(trace[t], {PreCreate}) # {})
                => RunIdx(trace[t], {PostCreate}) # {}
        /\ (FinishedOp(t) /\ last[t].op = "Update" /\ RunIdx(trace[t], {PreUpdate}) # {})
                => RunIdx(trace[t], {PostUpdate}) # {}

\* C10 amended: Create and Update run their post-event hooks exactly when
\* they issued the store call, whether or not the store call succeeded; when
\* a pre-event hook failed they return without running them.
C10_PostAttemptedIffStoreCalled ==
    \A t \in Threads :
        FinishedOp(t) =>
            /\ (RunIdx(trace[t], {PostCreate}) # {}) <=> (StoreIdx(trace[t], {"Set"}) # {})
            /\ (RunIdx(trace[t], {PostUpdate}) # {}) <=> (StoreIdx(trace[t], {"Update"}) # {})
            /\ FailIdx(trace[t], {PreCreate}) # {} => RunIdx(trace[t], {PostCreate}) = {}
            /\ FailIdx(trace[t], {PreUpdate}) # {} => RunIdx(trace[t], {PostUpdate}) = {}

\* an Update whose store call failed and whose post_update hooks were run
C10_Witness ==
    \E t \in Threads :
        /\ FinishedOp(t) /\ last[t].op = "Update"
        /\ writes # <<>> /\ ~writes[Len(writes)].ok
        /\ RunIdx(trace[t], {PostUpdate}) # {}

\* C11: Delete runs the post_delete hooks if and only if the soft-delete
\* update it issued returned success; when the pre_delete hooks fail, or the
\* update fails in its validation, its pre_update hooks or the store, no
\* post_delete hook is run.
C11_PostDeleteIffUpdateSucceeded ==
    \A t \in Threads :
        LET tr == trace[t]
            stored == {i \in StoreIdx(tr, {"Update"}) : tr[i][5] = "ok"}
            post == RunIdx(tr, {PostDelete})
        IN /\ AllBefore(stored, post)
           /\ (FinishedOp(t) /\ last[t].op = "Delete") =>
                /\ (post # {}) <=> (stored # {})
                /\ (post # {}) <=> (last[t].err = Nil)
                /\ (\/ FailIdx(tr, {PreDelete, PreUpdate}) # {}
                    \/ ValIdx(tr, "Update", "fail") # {}
                    \/ StoreIdx(tr, {"Update"}) \ stored # {}) => post = {}

\* a Delete whose update failed in the store returned its error without
\* running the post_delete hooks
C11_Witness ==
    \E t \in Threads :
        /\ FinishedOp(t) /\ last[t].op = "Delete"
        /\ StoreIdx(trace[t], {"Update"}) # {}
        /\ last[t].err # Nil
        /\ RunIdx(trace[t], {PostDelete}) = {}

\* the update map a store Update was sent, rebuilt from its firestore.Update list
SentMap(fsu) == [k \in {u.Path : u \in fsu} |-> (CHOOSE u \in fsu : u.Path = k).Value]

\* the sent map passes validateUpdateFields for a model of its collection
Reconciled(w) ==
    \E x \in Instances :
        /\ bm[x].CollectionName = w.coll
        /\ UpdateFieldErrors(SentMap(w.sent), bm[x]) = {}

\* C12: every update map the store receives through Update or Delete has
\* been reconciled against the schema catalog and carries updated_at set
\* to the server-timestamp marker, also when a pre_update hook edited the map.
C12_StoredUpdateReconciledAndStamped ==
    \A i \in 1..Len(writes) :
        writes[i].kind = "Update" =>
            /\ [Path |-> "updated_at", Value |-> ServerTimestamp] \in writes[i].sent
            /\ Reconciled(writes[i])

\* validateUpdateFields has just returned f.err for f.updates
Validated(t) == Running(t, "validateUpdateFields", "done")
AllProtected(updates) == DOMAIN updates \subseteq baseModelFields

\* C13: validateUpdateFields accepts an update map whose keys are all
\* protected (deleted, deleted_at, updated_at) whether or not the schema key
\* is registered; it returns 'collection not registered' only for a map
\* with at least one other key.
C13_ProtectedKeysNeedNoLookup ==
    \A t \in Threads :
        (Validated(t) /\ DOMAIN Top(t).updates # {}) =>
            LET f == Top(t) IN
            /\ AllProtected(f.updates) => f.err = Nil
            /\ f.err.kind = "not_registered" => ~AllProtected(f.updates)

\* the keys of an update map that break a rule of the schema info: a key
\* that is neither protected nor a tag, or a tag of a required field whose
\* value is nil or the empty string
Violating(updates, info) ==
    {k \in DOMAIN updates \ baseModelFields :
        \/ k \notin DOMAIN info.TagToFieldMap
        \/ /\ info.TagToFieldMap[k] \in info.Required
           /\ updates[k] \in {"<nil>", ""}}

RegisteredFor(b) == ModelKey(b.CollectionName, b.ModelName) \in DOMAIN modelRegistry
InfoFor(b) == modelRegistry[ModelKey(b.CollectionName, b.ModelName)]

\* C14: for a registered schema key validateUpdateFields succeeds if and
\* only if no key of the map is violating; otherwise it returns one error,
\* naming one violating key; and whether it succeeds does not depend on the
\* order in which the keys are visited.
C14_ValidExactlyWhenNoViolation ==
    \A t \in Threads :
        (Validated(t) /\ RegisteredFor(bm[Top(t).recv])) =>
            LET f == Top(t)
                bad == Violating(f.updates, InfoFor(bm[f.recv]))
                all == validateUpdateFields(f.updates, bm[f.recv])
            IN /\ (f.err = Nil) <=> (bad = {})
               /\ f.err # Nil => (f.err.kind \in {"unknown_field", "required"} /\ f.err.a \in bad)
               /\ (Nil \in all) => (all = {Nil})

\* a map with two violating keys was rejected with the error of one of them
C14_Witness ==
    \E t \in Threads :
        /\ Validated(t) /\ RegisteredFor(bm[Top(t).recv])
        /\ Cardinality(Violating(Top(t).updates, InfoFor(bm[Top(t).recv]))) = 2
        /\ Top(t).err.kind = "required"

\* a required field of the record holds its zero value
RequiredZero(data) == data.Title = "" \/ data.Description = ""

\* Create is about to check the record it was given (a struct or a pointer
\* to one), on an instance that has its collection
ChecksRecord(t) ==
    /\ Running(t, "Create", "begin")
    /\ bm[Top(t).recv].CollectionName # ""
    /\ Top(t).data.kind \in {"ptr", "struct"}

\* C15: Create's check of the complete record fails if and only if a
\* required field holds its zero value; Create then returns before an ID or
\* timestamps are assigned, before any pre_create hook is run and without a
\* store write; and Create never invokes validateUpdateFields.
C15_CreateChecksWholeRecord ==
    [][\A t \in Threads :
        /\ ChecksRecord(t) =>
            /\ RequiredZero(Top(t).data)
                    <=> (stack'[t] = <<>> /\ last'[t].err.kind = "required")
            /\ RequiredZero(Top(t).data) =>
                    /\ bm' = bm /\ nextID' = nextID /\ clock' = clock
                    /\ store' = store /\ writes' = writes
                    /\ RunIdx(trace'[t], {PreCreate}) = {}
        /\ (~Idle(t) /\ stack[t][1].op = "Create") =>
                ValIdx(trace'[t], "Update", "ok") \cup ValIdx(trace'[t], "Update", "fail") = {}
      ]_vars

\* a Create returned the required-field error after an earlier Create had
\* assigned an ID
C15_Witness ==
    \E t \in Threads :
        /\ FinishedOp(t) /\ last[t].op = "Create"
        /\ last[t].err.kind = "required"
        /\ nextID > 0
        /\ trace[t] = <<(<<"validate", "Create", "fail", "", "">>)>>

\* parseFilter has just returned f.out for (f.key, f.val)
Parsed(t) == Running(t, "parseFilter", "done")

\* the strings of the inputs that are dates of the calendar, and their
\* timestamps: 2025-04-01 and 2024-02-29
DateOf(s) ==
    CASE s = <<"2", "0", "2", "5", "-", "0", "4", "-", "0", "1">> -> TimeValue(2025, 4, 1)
      [] s = <<"2", "0", "2", "4", "-", "0", "2", "-", "2", "9">> -> TimeValue(2024, 2, 29)
      [] OTHER -> NilValue
IsDate(v) == v.kind = "string" /\ DateOf(v.s) # NilValue

\* C16: on a key without "__" parseFilter never returns an error and the
\* field is the whole key; a list gives the operator in and the value
\* unchanged; anything else gives ==, a string that is a YYYY-MM-DD date
\* replaced by its timestamp, every other value kept as it is.
C16_SimpleKeyNeverFails ==
    \A t \in Threads :
        (Parsed(t) /\ \A i \in 1..(Len(Top(t).key) - 1) :
                            ~(Top(t).key[i] = "_" /\ Top(t).key[i + 1] = "_")) =>
            LET f == Top(t) IN
            /\ f.out.err = Nil
            /\ f.out.field = f.key
            /\ f.out.op = (IF f.val.kind = "list" THEN "in" ELSE "==")
            /\ f.out.newValue = (IF IsDate(f.val) THEN DateOf(f.val.s) ELSE f.val)

\* the key a_gt, which has no "__", with a string that is not a date
C16_Witness ==
    \E t \in Threads :
        /\ Parsed(t)
        /\ Top(t).key = <<"a", "_", "g", "t">>
        /\ Top(t).val = StringValue(<<"2", "0", "2", "3", "-", "0", "2", "-", "2", "9">>)
        /\ Top(t).out.newValue = Top(t).val

\* the operator keys of the inputs, with the field and the operator the
\* suffix table gives them
OperatorKeys ==
    {[key |-> <<"a", "_", "_", "g", "t">>, field |-> <<"a">>, op |-> ">"],
     [key |-> <<"a", "_", "_", "g", "t", "e">>, field |-> <<"a">>, op |-> ">="],
     [key |-> <<"a", "_", "_", "l", "t">>, field |-> <<"a">>, op |-> "<"],
     [key |-> <<"a", "_", "_", "l", "t", "e">>, field |-> <<"a">>, op |-> "<="],
     [key |-> <<"a", "_", "_", "g", "t", "t">>, field |-> <<"a">>, op |-> "=="],
     [key |-> <<"a", "_", "_", "e", "q">>, field |-> <<"a">>, op |-> "=="],
     [key |-> <<"a", "_", "_">>, field |-> <<"a">>, op |-> "=="],
     [key |-> <<"_", "_", "g", "t">>, field |-> <<>>, op |-> ">"],
     [key |-> <<"a", "_", "_", "a", "_", "_", "g", "t">>, field |-> <<"a">>, op |-> "=="],
     [key |-> <<"a", "_", "_", "_", "g", "t">>, field |-> <<"a">>, op |-> "=="]}

\* C17: on a key field__suffix parseFilter maps gt, gte, lt, lte to >, >=,
\* <, <= and every other suffix to ==; a string must be a YYYY-MM-DD date and
\* is replaced by its timestamp, a string that is not one is an error naming
\* the key whatever the suffix, and any other value is passed through.
C17_OperatorKeyStrictDates ==
    \A t \in Threads : \A k \in OperatorKeys :
        (Parsed(t) /\ Top(t).key = k.key) =>
            LET f == Top(t) IN
            IF f.val.kind = "string" /\ ~IsDate(f.val)
            THEN f.out.err # Nil /\ f.out.errKey = f.key
            ELSE /\ f.out.err = Nil
                 /\ f.out.field = k.field
                 /\ f.out.op = k.op
                 /\ f.out.newValue = (IF IsDate(f.val) THEN DateOf(f.val.s) ELSE f.val)

\* a mistyped suffix, which maps to ==, still rejects a string that is not
\* a date
C17_Witness ==
    \E t \in Threads :
        /\ Parsed(t)
        /\ Top(t).key = <<"a", "_", "_", "g", "t", "t">>
        /\ Top(t).val = StringValue(<<"a", "c", "t">>)
        /\ Top(t).out.err # Nil

\* applyOperatorFilters has just returned (f.query, f.out.err) for f.filters
Applied(t) == Running(t, "applyOperatorFilters", "done")

\* the predicates of the entries, in the order the caller wrote them
RECURSIVE PredsInOrder(_)
PredsInOrder(entries) ==
    IF entries = <<>> THEN <<>>
    ELSE <<Pred(parseFilter(Head(entries).key, Head(entries).val))>>
            \o PredsInOrder(Tail(entries))

\* the entries parseFilter rejects, by position
InvalidAt(entries) ==
    {i \in DOMAIN entries : parseFilter(entries[i].key, entries[i].val).err # Nil}

\* C18 as claimed: the predicates are applied in the insertion order of the
\* map's keys, two compilations of one map give the same ordered list, and
\* with several invalid keys the error names the first in insertion order.
C18_PredicatesInInsertionOrder ==
    \A t \in Threads :
        Applied(t) =>
            LET f == Top(t)
                bad == InvalidAt(f.filters)
            IN /\ bad = {} => f.query = BaseQuery \o PredsInOrder(f.filters)
               /\ bad # {} =>
                    f.out.errKey = f.filters[CHOOSE i \in bad : \A j \in bad : i <= j].key
               /\ Cardinality(applyOperatorFilters(BaseQuery, FilterMap(f.filters))) = 1

\* C18 amended: a valid map compiles to one predicate per key after the
\* caller's own, in an order that is not fixed; every compilation of it
\* gives the same set of predicates.  A map with invalid keys always fails,
\* and the error names one of the invalid keys.
C18_OnePredicatePerKeyAnyOrder ==
    \A t \in Threads :
        Applied(t) =>
            LET f == Top(t)
                bad == InvalidAt(f.filters)
                n == Len(BaseQuery)
                want == {PredsInOrder(f.filters)[i] : i \in DOMAIN f.filters}
            IN /\ (f.out.err = Nil) <=> (bad = {})
               /\ bad = {} =>
                    /\ Len(f.query) = n + Len(f.filters)
                    /\ SubSeq(f.query, 1, n) = BaseQuery
                    /\ {f.query[i] : i \in (n + 1)..Len(f.query)} = want
               /\ bad # {} => \E i \in bad : f.out.errKey = f.filters[i].key

\* a valid map of two entries compiled in the order opposite to the one
\* they were written in
C18_Witness ==
    \E t \in Threads :
        /\ Applied(t)
        /\ Len(Top(t).filters) = 2
        /\ Top(t).out.err = Nil
        /\ Top(t).query = BaseQuery \o <<PredsInOrder(Top(t).filters)[2],
                                          PredsInOrder(Top(t).filters)[1]>>

\* the List call thread t is in, whatever step it is at, and what it has
\* asked of the store so far
InList(t) == ~Idle(t) /\ Top(t).op = "List"
Listed(t) == Running(t, "List", "done")
GetIdx(tr) == {i \in 1..Len(tr) : tr[i][1] = "get"}
QueryIdx(tr) == {i \in 1..Len(tr) : tr[i][1] = "query"}

\* C19: List with a sort field and a sort order other than exactly asc or
\* desc returns an error and no items, without fetching the cursor document
\* and without running the query; with no sort field the sort order is
\* ignored: it is no error and no order is applied to the query.
C19_BadSortOrderRejectedEarly ==
    \A t \in Threads :
        InList(t) =>
            LET f == Top(t) IN
            /\ (f.sortField # "" /\ f.sortOrder \notin {"asc", "desc"}) =>
                    /\ GetIdx(trace[t]) = {} /\ QueryIdx(trace[t]) = {}
                    /\ f.items = <<>>
                    /\ Listed(t) => (f.err # Nil /\ f.token = "")
            /\ f.sortField = "" =>
                    /\ f.err.kind # "invalid_sort_order"
                    /\ f.qOrder = ""
                    /\ \A i \in QueryIdx(trace[t]) : trace[t][i][4] = ""

\* a List with sort field title, sort order ASC and a cursor token returned
\* the sort-order error
C19_Witness ==
    \E t \in Threads :
        /\ Listed(t)
        /\ Top(t).sortField = "title" /\ Top(t).sortOrder = "ASC"
        /\ Top(t).startAfter = "d0"
        /\ Top(t).err.kind = "invalid_sort_order"

\* the documents of the collection that are not soft-deleted and come after
\* the cursor document in the order of the query
LiveAfter(coll, f) ==
    {id \in DocIdsOf(coll) :
        /\ store[DocKey(coll, id)].deleted = "false"
        /\ Before(coll, f.sortField, f.qOrder, f.startAfter, id)}

\* C20: List with a startAfter token fetches the document of that
\* identifier: if the fetch fails it returns the invalid-token error, no
\* items and an empty next token, and the query is not run; if it succeeds
\* the query resumes after that document.  The cursor is never taken from an
\* earlier call: a call without a token starts from the beginning.
C20_CursorResolvedByFetch ==
    \A t \in Threads :
        InList(t) =>
            LET f == Top(t)
                tr == trace[t]
                coll == bm[f.recv].CollectionName
                failed == {i \in GetIdx(tr) : tr[i][4] = "fail"}
            IN /\ \A i \in GetIdx(tr) : tr[i][2] = coll /\ tr[i][3] = f.startAfter
               /\ \A i \in QueryIdx(tr) : tr[i][3] = f.startAfter
               /\ f.startAfter # "" => AllBefore(GetIdx(tr) \ failed, QueryIdx(tr))
               /\ f.startAfter = "" => GetIdx(tr) = {}
               /\ failed # {} =>
                    /\ QueryIdx(tr) = {}
                    /\ f.items = <<>>
                    /\ Listed(t) => (f.err.kind = "invalid_token" /\ f.token = "")
               /\ (Listed(t) /\ f.err = Nil /\ f.startAfter # "") =>
                    /\ \A i \in DOMAIN f.items : f.items[i] \in LiveAfter(coll, f)
                    /\ (f.limit <= 0 /\ f.filters = <<>>) =>
                            {f.items[i] : i \in DOMAIN f.items} = LiveAfter(coll, f)

\* the second List of a goroutine resumed after d0, the token it was given
C20_Witness ==
    \E t \in Threads :
        /\ Listed(t)
        /\ calls[t] >= 2
        /\ Top(t).startAfter = "d0"
        /\ Top(t).err = Nil
        /\ Top(t).items # <<>>
        /\ GetIdx(trace[t]) # {}

\* a List call that returned without error
ListedOK(t) == Listed(t) /\ Top(t).err = Nil

\* C21: for a successful List, when limit > 0 at most limit items are
\* returned and the next token is the identifier of the last returned item
\* if and only if exactly limit items were returned, and is empty otherwise;
\* when limit <= 0 the query is not capped and the next token is empty.
C21_TokenIffFullPage ==
    \A t \in Threads :
        ListedOK(t) =>
            LET f == Top(t)
                n == Len(f.items)
                coll == bm[f.recv].CollectionName
            IN /\ f.limit > 0 =>
                    /\ n <= f.limit
                    /\ f.token = IF n = f.limit THEN f.items[n] ELSE ""
               /\ f.limit <= 0 =>
                    /\ f.token = ""
                    /\ f.items = QueryResult(coll, f.query, f.sortField, f.qOrder, f.qAfter, 0)

\* C23: List and Count are all-or-nothing: when a filter fails to compile or
\* the store fails while the results are read, the call returns the error
\* and no partial result: the results slice passed to List holds no item
\* read before the failure (and Count returns 0).
C23_NoPartialResults ==
    \A t \in Threads :
        (Listed(t) /\ Top(t).err # Nil) =>
            /\ Top(t).token = ""
            /\ Top(t).items = <<>>
            /\ ResultsSlice(Top(t)) = Top(t).had

\* the identifiers of the records a pagination is to return: those of the
\* collection that are not soft-deleted and satisfy the filter
PageMatching(f) ==
    {id \in DocIdsOf(bm[f.recv].CollectionName) :
        LET doc == store[DocKey(bm[f.recv].CollectionName, id)] IN
        /\ doc.deleted = "false"
        /\ \A i \in DOMAIN f.filters :
                f.filters[i].key = TitleField => TitleValue(doc) = f.filters[i].val}
InMain(t) == ~Idle(t) /\ stack[t][1].op = "main"
NoRepeats(seq) == \A i, j \in DOMAIN seq : i # j => seq[i] # seq[j]

\* C22: on an unchanged store, the List calls of one pagination (limit > 0,
\* the same filter and sort, each call given the token of the one before)
\* end with an empty token after at most N div limit + 1 calls, N the number
\* of matching non-deleted records, and together return each of them exactly
\* once; when N is a multiple of limit the last full page carries a token
\* and the call after it returns zero items and an empty token.
C22_PaginationCoversOnce ==
    \A t \in Threads :
        InMain(t) =>
            LET f == stack[t][1]
                N == Cardinality(PageMatching(f))
            IN /\ f.page <= (N \div f.limit) + 1
               /\ NoRepeats(f.all)
               /\ \A i \in DOMAIN f.all : f.all[i] \in PageMatching(f)
               /\ f.pc = "list" => (f.token # "" \/ f.page = 1)
               /\ (f.pc = "done" /\ f.err = Nil) =>
                    /\ f.token = ""
                    /\ {f.all[i] : i \in DOMAIN f.all} = PageMatching(f)
                    /\ f.page = (N \div f.limit) + 1
                    /\ f.count = N % f.limit

\* a pagination of the two tasks titled a, with limit 1, ended with its third
\* call: two full pages with a token, then zero items and no token
C22_Witness ==
    \E t \in Threads :
        /\ Running(t, "main", "done")
        /\ Top(t).err = Nil
        /\ Top(t).limit = 1
        /\ Cardinality(PageMatching(Top(t))) = 2
        /\ Top(t).page = 3 /\ Top(t).count = 0
        /\ Len(Top(t).all) = 2

\* a RegisterModel call of t takes its last step: it returns
RegisterReturns(t) == Running(t, "RegisterModel", "done") /\ stack'[t] = <<>>
\* the entries of the registry are those of their keys
EntryOfItsKey(k) ==
    /\ modelRegistry[k].Schema \in ModelTypes
    /\ k = ModelKey(modelRegistry[k].CollectionName, TypeName(modelRegistry[k].Schema))

\* C24: RegisterModel succeeds at most once per (collection, model name): a
\* call for a pair that has an entry returns an error and leaves the
\* registry as it was, a call for a pair without an entry succeeds, adds the
\* entry of its own type and leaves the other entries alone; every entry
\* is looked up under its own key.
C24_RegisterOncePerKey ==
    /\ [](\A k \in DOMAIN modelRegistry : EntryOfItsKey(k))
    /\ [](\A t \in Threads :
            Running(t, "GetModelInfo", "done") =>
                IF Top(t).modelName \in DOMAIN modelRegistry
                THEN Top(t).err = Nil /\ Top(t).info = modelRegistry[Top(t).modelName]
                ELSE Top(t).err # Nil)
    /\ [][\A t \in Threads :
            /\ (Running(t, "RegisterModel", "check") /\ stack'[t] # stack[t]) =>
                    LET f == Top(t)
                        key == ModelKey(f.coll, TypeName(f.model))
                    IN (key \in DOMAIN modelRegistry) <=> (stack'[t][1].err # Nil)
            /\ (~Idle(t) /\ Top(t).op = "RegisterModel" /\ stack'[t] # stack[t]) =>
                    LET f == Top(t)
                        key == ModelKey(f.coll, TypeName(f.model))
                    IN IF f.pc = "insert"
                       THEN modelRegistry' = MapSet(modelRegistry, key,
                                                    ModelInfoOf(f.model, f.coll))
                            /\ key \notin DOMAIN modelRegistry
                       ELSE modelRegistry' = modelRegistry
       ]_vars

\* main.Task and main.Note are registered under "tasks", a registration of
\* other.Task under "tasks" was refused, and the entries are both there
C24_Witness ==
    /\ Running("t1", "RegisterModel", "done")
    /\ Top("t1").model = "other.Task" /\ Top("t1").coll = "tasks"
    /\ Top("t1").err # Nil
    /\ DOMAIN modelRegistry = {"tasks.Task", "tasks.Note"}
    /\ modelRegistry["tasks.Task"] = ModelInfoOf("main.Task", "tasks")
    /\ modelRegistry["tasks.Note"] = ModelInfoOf("main.Note", "tasks")

\* C26: of two concurrent RegisterModel calls for the same pair at most one
\* returns success, and no insertion follows an existence check that the
\* other call's insertion has made stale.
C26_ConcurrentRegisterOnce ==
    /\ ~(\A t \in Threads :
            Idle(t) /\ last[t].op = "RegisterModel" /\ last[t].err = Nil)
    /\ \A t \in Threads :
            Running(t, "RegisterModel", "insert") =>
                Top(t).modelName \notin DOMAIN modelRegistry
    /\ \A t \in Threads : last[t].err.kind # "fatal"

\* a document satisfies one entry of a filter map (title: x, deleted: b)
Satisfies(doc, e) ==
    CASE e.key = TitleField -> TitleValue(doc) = e.val
      [] e.key = DeletedField -> (doc.deleted = "true") = (e.val = BoolTrue)
      [] OTHER -> FALSE
\* the live documents of a collection that satisfy every entry
LiveMatching(coll, entries) ==
    {id \in DocIdsOf(coll) :
        /\ store[DocKey(coll, id)].deleted = "false"
        /\ \A i \in DOMAIN entries : Satisfies(store[DocKey(coll, id)], entries[i])}
IsLive(coll, id) ==
    DocKey(coll, id) \in DOMAIN store /\ store[DocKey(coll, id)].deleted = "false"
ReadOK(t, op) == Running(t, op, "done") /\ Top(t).err = Nil

C30_GetRefusesSoftDeleted ==
    \A t \in Threads :
        ReadOK(t, "Get") =>
            /\ IsLive(bm[Top(t).recv].CollectionName, Top(t).id)
            /\ Top(t).data.Deleted = "false"

SetIdx == {i \in DOMAIN writes : writes[i].kind = "Set"}

\* C27: concurrent Create calls on one model instance write their documents
\* under distinct identifiers, and the ID of every record is the identifier
\* of the document it was stored under: no record overwrites another or is
\* stored under another's identifier.
C27_ConcurrentCreatesDistinct ==
    /\ \A i \in SetIdx : writes[i].sent.id = writes[i].id
    /\ \A i, j \in SetIdx : i # j => writes[i].id # writes[j].id

\* the steps of a Delete that its trace shows: the RunHooks calls, by event,
\* and the store call
DeleteSteps(tr) ==
    LET s == SelectSeq(tr, LAMBDA e : e[1] \in {"run", "store"})
    IN [i \in DOMAIN s |-> IF s[i][1] = "run" THEN s[i][3] ELSE "store"]
DeleteOrder == <<PreDelete, PreUpdate, "store", PostUpdate, PostDelete>>
InDelete(t) == ~Idle(t) /\ stack[t][1].op = "Delete"

\* C28: a Delete runs pre_delete, pre_update, the store update, post_update
\* and post_delete, in this order; the pre_delete and post_delete hooks are
\* run by Delete for its identifier, the pre_update and post_update hooks by
\* the Update that Delete calls with the soft-delete map; a failing
\* pre_update hook aborts the Delete with an error, no store write and no
\* post_delete hook.
C28_DeleteRunsUpdateHooks ==
    \A t \in Threads :
        /\ OpOf(t) = "Delete" =>
            LET tr == trace[t] IN
            /\ IsPrefix(DeleteSteps(tr), DeleteOrder)
            /\ (FinishedOp(t) /\ last[t].err = Nil) => DeleteSteps(tr) = DeleteOrder
            /\ FailIdx(tr, {PreUpdate}) # {} =>
                    /\ StoreIdx(tr, {"Set", "Update"}) = {}
                    /\ RunIdx(tr, {PostDelete}) = {}
                    /\ FinishedOp(t) => last[t].err # Nil
        /\ (InDelete(t) /\ Top(t).op = "RunHooks") =>
            LET n == Len(stack[t])
                caller == stack[t][n - 1]
            IN IF Top(t).ht \in {PreDelete, PostDelete}
               THEN n = 2 /\ caller.op = "Delete"
               ELSE /\ Top(t).ht \in {PreUpdate, PostUpdate}
                    /\ n = 3 /\ caller.op = "Update"
                    /\ caller.id = stack[t][1].id
                    /\ DOMAIN caller.updates = {"deleted", "deleted_at", "updated_at"}
                    /\ caller.updates.deleted = "true"
                    /\ caller.updates.updated_at = ServerTimestamp

\* a Delete whose pre_update hook failed has returned that error
C28_Witness ==
    \E t \in Threads :
        /\ FinishedOp(t) /\ last[t].op = "Delete"
        /\ FailIdx(trace[t], {PreUpdate}) # {}
        /\ DeleteSteps(trace[t]) = <<PreDelete, PreUpdate>>
        /\ last[t].err.kind = "hook"

\* C29: every record stored by a Create carries the created_at of its own
\* call: the time the call read, never a time read before the call
\* started, so no two records of different calls share a creation time.
C29_CreatedAtOfOwnCall ==
    /\ \A t \in Threads :
            (~Idle(t) /\ Top(t).op = "Create" /\ Top(t).pc \in {"pre", "post"}) =>
                Top(t).data.CreatedAt = Top(t).data.UpdatedAt
    /\ \A i \in SetIdx : writes[i].sent.created_at = writes[i].sent.updated_at
    /\ \A i, j \in SetIdx : i # j => writes[i].sent.created_at # writes[j].sent.created_at

====
